---- MODULE Spec2Model ----
(***************************************************************************)
(* Credential manager browser extension: the credential cipher            *)
(* (crypto-utils.js), the environment matcher (content.js and the         *)
(* background script) and the handlers of the popup and of the floating   *)
(* panel that store, load and fill credentials.                           *)
(*                                                                         *)
(* Strings handled by the cipher are sequences of UTF-16 code units, as   *)
(* JavaScript strings are: TextEncoder, TextDecoder, btoa and atob work   *)
(* on the code units.  URL strings of the matcher are ASCII and are       *)
(* written as TLA+ strings.                                               *)
(***************************************************************************)
EXTENDS Integers, Sequences, FiniteSets, TLC

(***************************************************************************)
(* String literals                                                         *)
(***************************************************************************)
Upper == "ABCDEFGHIJKLMNOPQRSTUVWXYZ"
Lower == "abcdefghijklmnopqrstuvwxyz"
Digits == "0123456789"

IsIn(c, table) == \E i \in 1..Len(table) : SubSeq(table, i, i) = c
PosIn(c, table) == CHOOSE i \in 1..Len(table) : SubSeq(table, i, i) = c

\* The UTF-16 code unit of an ASCII character.
charCodeOf(c) ==
  IF IsIn(c, Upper) THEN 64 + PosIn(c, Upper)
  ELSE IF IsIn(c, Lower) THEN 96 + PosIn(c, Lower)
  ELSE IF IsIn(c, Digits) THEN 47 + PosIn(c, Digits)
  ELSE CASE c = " " -> 32
         [] c = "!" -> 33
         [] c = "#" -> 35
         [] c = "*" -> 42
         [] c = "+" -> 43
         [] c = "-" -> 45
         [] c = "." -> 46
         [] c = "/" -> 47
         [] c = ":" -> 58
         [] c = "=" -> 61
         [] c = "?" -> 63
         [] c = "@" -> 64
         [] c = "_" -> 95

\* A JavaScript string literal as its sequence of code units.
Str(s) == [i \in 1..Len(s) |-> charCodeOf(SubSeq(s, i, i))]

\* U+FEFF, the byte order mark, and U+00E9, a two-byte character of UTF-8.
BOM == <<65279>>
EAcute == <<233>>

\* null and undefined: no string has a negative code unit.
Null == <<-1>>

(***************************************************************************)
(* TextEncoder.encode and TextDecoder.decode (UTF-8)                       *)
(***************************************************************************)
IsHighSurrogate(c) == c >= 55296 /\ c <= 56319
IsLowSurrogate(c) == c >= 56320 /\ c <= 57343
IsContinuation(b) == b >= 128 /\ b <= 191

\* new TextEncoder().encode(str): a lone surrogate is encoded as U+FFFD.
RECURSIVE TextEncode(_)
TextEncode(u) ==
  IF u = <<>> THEN <<>>
  ELSE LET c == Head(u) IN
    IF c < 128 THEN <<c>> \o TextEncode(Tail(u))
    ELSE IF c < 2048
      THEN <<192 + (c \div 64), 128 + (c % 64)>> \o TextEncode(Tail(u))
    ELSE IF IsHighSurrogate(c) /\ Len(u) >= 2 /\ IsLowSurrogate(u[2])
      THEN LET cp == 65536 + (c - 55296) * 1024 + (u[2] - 56320) IN
           <<240 + (cp \div 262144), 128 + ((cp \div 4096) % 64),
             128 + ((cp \div 64) % 64), 128 + (cp % 64)>>
           \o TextEncode(Tail(Tail(u)))
    ELSE IF IsHighSurrogate(c) \/ IsLowSurrogate(c)
      THEN <<239, 191, 189>> \o TextEncode(Tail(u))
    ELSE <<224 + (c \div 4096), 128 + ((c \div 64) % 64), 128 + (c % 64)>>
         \o TextEncode(Tail(u))

\* The UTF-8 decoder's loop: an ill-formed byte decodes to U+FFFD.
RECURSIVE Utf8Decode(_)
Utf8Decode(b) ==
  IF b = <<>> THEN <<>>
  ELSE LET b1 == Head(b)
           n == Len(b)
           cp2 == (b1 - 192) * 64 + (b[2] - 128)
           cp3 == (b1 - 224) * 4096 + (b[2] - 128) * 64 + (b[3] - 128)
           cp4 == (b1 - 240) * 262144 + (b[2] - 128) * 4096
                  + (b[3] - 128) * 64 + (b[4] - 128)
       IN
    IF b1 < 128 THEN <<b1>> \o Utf8Decode(Tail(b))
    ELSE IF b1 >= 194 /\ b1 <= 223 /\ n >= 2 /\ IsContinuation(b[2])
      THEN <<cp2>> \o Utf8Decode(SubSeq(b, 3, n))
    ELSE IF b1 >= 224 /\ b1 <= 239 /\ n >= 3 /\ IsContinuation(b[2])
            /\ IsContinuation(b[3]) /\ cp3 >= 2048
            /\ ~(IsHighSurrogate(cp3) \/ IsLowSurrogate(cp3))
      THEN <<cp3>> \o Utf8Decode(SubSeq(b, 4, n))
    ELSE IF b1 >= 240 /\ b1 <= 244 /\ n >= 4 /\ IsContinuation(b[2])
            /\ IsContinuation(b[3]) /\ IsContinuation(b[4])
            /\ cp4 >= 65536 /\ cp4 <= 1114111
      THEN <<55296 + ((cp4 - 65536) \div 1024), 56320 + ((cp4 - 65536) % 1024)>>
           \o Utf8Decode(SubSeq(b, 5, n))
    ELSE <<65533>> \o Utf8Decode(Tail(b))

\* new TextDecoder().decode(buffer): the decoder is built with its defaults
\* (utf-8, ignoreBOM false), so a leading EF BB BF is consumed, not decoded.
TextDecode(b) ==
  IF Len(b) >= 3 /\ SubSeq(b, 1, 3) = <<239, 187, 191>>
  THEN Utf8Decode(SubSeq(b, 4, Len(b)))
  ELSE Utf8Decode(b)

(***************************************************************************)
(* btoa and atob                                                           *)
(***************************************************************************)
B64Alphabet == Str(Upper \o Lower \o Digits \o "+/")
B64Pad == charCodeOf("=")
\* The base64 table: A-Z are 0..25, a-z 26..51, 0-9 52..61, + is 62, / is 63.
IsB64Char(c) ==
  \/ (c >= 65 /\ c <= 90)
  \/ (c >= 97 /\ c <= 122)
  \/ (c >= 48 /\ c <= 57)
  \/ c = 43
  \/ c = 47
B64Index(c) ==
  IF c >= 65 /\ c <= 90 THEN c - 65
  ELSE IF c >= 97 /\ c <= 122 THEN c - 71
  ELSE IF c >= 48 /\ c <= 57 THEN c + 4
  ELSE IF c = 43 THEN 62 ELSE 63

\* btoa(binary): base64 with padding; binary holds one code unit per byte.
RECURSIVE btoa(_)
btoa(b) ==
  IF b = <<>> THEN <<>>
  ELSE IF Len(b) = 1
    THEN <<B64Alphabet[(b[1] \div 4) + 1], B64Alphabet[(b[1] % 4) * 16 + 1],
           B64Pad, B64Pad>>
  ELSE IF Len(b) = 2
    THEN <<B64Alphabet[(b[1] \div 4) + 1],
           B64Alphabet[(b[1] % 4) * 16 + (b[2] \div 16) + 1],
           B64Alphabet[(b[2] % 16) * 4 + 1], B64Pad>>
  ELSE <<B64Alphabet[(b[1] \div 4) + 1],
         B64Alphabet[(b[1] % 4) * 16 + (b[2] \div 16) + 1],
         B64Alphabet[(b[2] % 16) * 4 + (b[3] \div 64) + 1],
         B64Alphabet[(b[3] % 64) + 1]>>
       \o btoa(SubSeq(b, 4, Len(b)))

\* The bytes of a string of base64 characters without padding: a last group
\* of 2 or 3 characters gives 1 or 2 bytes, its spare bits dropped.
RECURSIVE B64Bytes(_)
B64Bytes(s) ==
  IF Len(s) < 2 THEN <<>>
  ELSE LET i1 == B64Index(s[1])
           i2 == B64Index(s[2])
       IN
    IF Len(s) = 2 THEN <<i1 * 4 + (i2 \div 16)>>
    ELSE LET i3 == B64Index(s[3]) IN
      IF Len(s) = 3 THEN <<i1 * 4 + (i2 \div 16), (i2 % 16) * 16 + (i3 \div 4)>>
      ELSE <<i1 * 4 + (i2 \div 16), (i2 % 16) * 16 + (i3 \div 4),
             (i3 % 4) * 64 + B64Index(s[4])>>
           \o B64Bytes(SubSeq(s, 5, Len(s)))

IsAsciiWhitespace(c) == c \in {9, 10, 12, 13, 32}

\* atob(base64): the forgiving-base64 decode; ok is FALSE where atob throws.
atob(str) ==
  LET s0 == SelectSeq(str, LAMBDA c : ~IsAsciiWhitespace(c))
      n0 == Len(s0)
      s1 == IF n0 > 0 /\ n0 % 4 = 0
            THEN IF s0[n0] = B64Pad /\ s0[n0 - 1] = B64Pad
                 THEN SubSeq(s0, 1, n0 - 2)
                 ELSE IF s0[n0] = B64Pad THEN SubSeq(s0, 1, n0 - 1) ELSE s0
            ELSE s0
  IN IF Len(s1) % 4 = 1 \/ \E i \in 1..Len(s1) : ~IsB64Char(s1[i])
     THEN [ok |-> FALSE, bytes |-> <<>>]
     ELSE [ok |-> TRUE, bytes |-> B64Bytes(s1)]

(***************************************************************************)
(* CryptoUtils: key derivation, AES-GCM, encrypt and decrypt               *)
(***************************************************************************)
SaltLen == 16
IvLen == 12
TagLen == 16

Throw == [ok |-> FALSE, value |-> <<>>]
Return(v) == [ok |-> TRUE, value |-> v]

\* array.slice(from, to) of a Uint8Array, the indices clamped to its length.
Slice(a, from, to) ==
  SubSeq(a, from + 1, IF to < Len(a) THEN to ELSE Len(a))

\* crypto.getRandomValues(new Uint8Array(n)): the bytes drawn are an input of
\* the model, named by a seed.
RandomValues(n, seed) == [i \in 1..n |-> (seed * 16 + i) % 256]
generateSalt(seed) == RandomValues(SaltLen, seed)
generateIV(seed) == RandomValues(IvLen, seed)

\* deriveKey(password, salt): PBKDF2 (100000 iterations, SHA-256) gives a
\* non-extractable AES key.  The key is an opaque object that is determined
\* by the bytes of the password and of the salt, and by nothing else.
deriveKeyIgnoringPassword(password, salt) == [pw |-> <<>>, salt |-> salt]
deriveKey(password, salt) == [pw |-> TextEncode(password), salt |-> salt]

\* A sum of the bytes weighted by odd numbers, modulo 256.
RECURSIVE WeightedSum(_, _, _)
WeightedSum(a, j, i) ==
  IF i > Len(a) THEN 0
  ELSE ((2 * (i + j) + 1) * a[i] + WeightedSum(a, j, i + 1)) % 256

\* crypto.subtle.encrypt / decrypt with {name: 'AES-GCM', iv}: the platform's
\* authenticated cipher, with its default tag of 128 bits.  The key stream
\* and the tag stand for AES-CTR and GHASH: functions of the key, the IV and
\* (the tag) the ciphertext, which give different tags for the different
\* keys, IVs and ciphertexts the model builds.
GcmKeyStream(key, iv) ==
  (WeightedSum(key.pw, 0, 1) + WeightedSum(key.salt, 1, 1)
   + WeightedSum(iv, 2, 1)) % 256
GcmTag(key, iv, ct) ==
  LET k == WeightedSum(key.pw, 3, 1) + 3 * WeightedSum(key.salt, 4, 1)
           + 5 * WeightedSum(iv, 5, 1) + 11 * Len(key.pw) + 13 * Len(ct)
  IN [j \in 1..TagLen |-> (k + 7 * WeightedSum(ct, j, 1) + j) % 256]
subtleEncrypt(key, iv, data) ==
  LET ks == GcmKeyStream(key, iv)
      ct == [i \in 1..Len(data) |-> (data[i] + ks + 31 * i) % 256]
  IN ct \o GcmTag(key, iv, ct)
subtleDecryptUnchecked(key, iv, encrypted) ==
  LET n == Len(encrypted) - TagLen
      ct == SubSeq(encrypted, 1, n)
      ks == GcmKeyStream(key, iv)
  IN IF n < 0 THEN [ok |-> FALSE, data |-> <<>>]
     ELSE [ok |-> TRUE,
           data |-> [i \in 1..n |-> (ct[i] + 7936 - ks - 31 * i) % 256]]
subtleDecrypt(key, iv, encrypted) ==
  LET n == Len(encrypted) - TagLen
      ct == SubSeq(encrypted, 1, n)
      tag == SubSeq(encrypted, n + 1, Len(encrypted))
      ks == GcmKeyStream(key, iv)
  IN IF n < 0 \/ tag # GcmTag(key, iv, ct)
     THEN [ok |-> FALSE, data |-> <<>>]
     ELSE [ok |-> TRUE,
           data |-> [i \in 1..n |-> (ct[i] + 7936 - ks - 31 * i) % 256]]

\* arrayBufferToBase64(buffer) and base64ToArrayBuffer(base64):
\* String.fromCharCode and charCodeAt map a byte to the code unit of the
\* same value and back.
arrayBufferToBase64(buffer) == btoa(buffer)
base64ToArrayBuffer(base64) == atob(base64)

\* encrypt with the IV written before the salt
encryptIvFirst(plaintext, password, saltSeed, ivSeed, subtle) ==
  LET data == TextEncode(plaintext)
      salt == generateSalt(saltSeed)
      iv == generateIV(ivSeed)
      key == deriveKey(password, salt)
      encrypted == subtleEncrypt(key, iv, data)
  IN IF ~subtle THEN Throw
     ELSE Return(arrayBufferToBase64(iv \o salt \o encrypted))

\* encrypt(plaintext, password), with the salt and the IV it draws; subtle
\* says whether crypto.subtle is there (it is undefined outside a secure
\* context).  Every error is caught and rethrown as Error('...').
encrypt(plaintext, password, saltSeed, ivSeed, subtle) ==
  LET data == TextEncode(plaintext)
      salt == generateSalt(saltSeed)
      iv == generateIV(ivSeed)
      key == deriveKey(password, salt)
      encrypted == subtleEncrypt(key, iv, data)
  IN IF ~subtle THEN Throw
     ELSE Return(arrayBufferToBase64(salt \o iv \o encrypted))

\* decrypt(ciphertext, password)
decrypt(ciphertext, password, subtle) ==
  LET decoded == base64ToArrayBuffer(ciphertext)
      data == decoded.bytes
      salt == Slice(data, 0, 16)
      iv == Slice(data, 16, 28)
      encrypted == Slice(data, 28, Len(data))
      key == deriveKey(password, salt)
      decrypted == subtleDecrypt(key, iv, encrypted)
  IN IF ~decoded.ok \/ ~subtle \/ ~decrypted.ok THEN Throw
     ELSE Return(TextDecode(decrypted.data))

\* /^[A-Za-z0-9+/]*={0,2}$/.test(text), text a string
base64Regex(text) ==
  \E k \in 0..Len(text) :
    /\ Len(text) - k <= 2
    /\ \A i \in 1..k : IsB64Char(text[i])
    /\ \A i \in (k + 1)..Len(text) : text[i] = B64Pad

\* isBase64(str): /^[A-Za-z0-9+/]*={0,2}$/.test(str) && str.length > 0
isBase64(str) ==
  /\ base64Regex(str)
  /\ Len(str) > 0

\* The values of JavaScript isBase64 can be called with, other than strings
\* given as their code units: a value is its type and, by type, its code
\* units, its number or its elements (strings, or Null for null).
JsValue(type, chars, num, items) ==
  [type |-> type, chars |-> chars, num |-> num, items |-> items]
JsString(chars) == JsValue("string", chars, 0, <<>>)
JsNull == JsValue("null", <<>>, 0, <<>>)
JsUndefined == JsValue("undefined", <<>>, 0, <<>>)
JsBoolean(b) == JsValue("boolean", <<>>, IF b THEN 1 ELSE 0, <<>>)
JsNumber(n) == JsValue("number", <<>>, n, <<>>)
JsArray(items) == JsValue("array", <<>>, 0, items)
JsObject == JsValue("object", <<>>, 0, <<>>)

RECURSIVE NumberToString(_)
\* Number.prototype.toString of a natural number
NumberToString(n) ==
  IF n < 10 THEN <<48 + n>>
  ELSE NumberToString(n \div 10) \o <<48 + (n % 10)>>

RECURSIVE Join(_)
\* Array.prototype.join of strings and nulls, the separator a comma
Join(items) ==
  IF items = <<>> THEN <<>>
  ELSE LET first == IF Head(items) = Null THEN <<>> ELSE Head(items)
       IN IF Len(items) = 1 THEN first
          ELSE first \o <<44>> \o Join(Tail(items))

\* JsToString(value), which RegExp.prototype.test applies to its argument
JsToString(value) ==
  CASE value.type = "string" -> value.chars
    [] value.type = "null" -> Str("null")
    [] value.type = "undefined" -> Str("undefined")
    [] value.type = "boolean" ->
         IF value.num = 1 THEN Str("true") ELSE Str("false")
    [] value.type = "number" -> NumberToString(value.num)
    [] value.type = "array" -> Join(value.items)
    [] value.type = "object" ->
         <<91>> \o Str("object Object") \o <<93>>

\* value.length > 0: a TypeError for null and undefined, false for a value
\* that has no length
LengthAboveZero(value) ==
  CASE value.type \in {"null", "undefined"} -> Throw
    [] value.type = "string" -> Return(Len(value.chars) > 0)
    [] value.type = "array" -> Return(Len(value.items) > 0)
    [] OTHER -> Return(FALSE)

\* isBase64(str) of any value: what it returns, its catch included
isBase64Value(value) ==
  IF ~base64Regex(JsToString(value)) THEN Return(FALSE)
  ELSE IF ~LengthAboveZero(value).ok THEN Return(FALSE)
  ELSE Return(LengthAboveZero(value).value)

(***************************************************************************)
(* CryptoUtils: the master password and the password wrappers              *)
(***************************************************************************)
\* The values JavaScript takes for false in `a || b` and `!a`, among those a
\* password can be: null, undefined and the empty string.
Falsy(v) == v = Null \/ v = <<>>

\* A master password kept from an earlier read, "s1", in place of the one
\* stored now.
getMasterPasswordCached(stored, storageOk) ==
  IF ~storageOk THEN Null
  ELSE IF Falsy(stored) THEN Null ELSE Str("s1")

\* getMasterPassword(): chrome.storage.local.get('masterPassword'), null when
\* the key is missing, the value is empty or the read fails.  stored is the
\* value under the key (Null: no such key).
getMasterPassword(stored, storageOk) ==
  IF ~storageOk THEN Null
  ELSE IF Falsy(stored) THEN Null ELSE stored

\* setMasterPassword(password): the value stored afterwards and the boolean
\* returned.
setMasterPassword(stored, password, storageOk) ==
  IF storageOk THEN [stored |-> password, result |-> TRUE]
  ELSE [stored |-> stored, result |-> FALSE]

\* encryptPassword(password, masterPassword = null).  The result says whether
\* the call returned (ok) and what, whether it read the stored master
\* password and whether it called encrypt.
encryptPasswordPropagating(password, masterPassword, stored, storageOk, seed, subtle) ==
  LET master == IF Falsy(masterPassword)
                THEN getMasterPassword(stored, storageOk)
                ELSE masterPassword
      res == encrypt(password, master, seed.salt, seed.iv, subtle)
  IN IF Falsy(master)
     THEN [ok |-> TRUE, value |-> password,
           readsMaster |-> Falsy(masterPassword), calls |-> FALSE]
     ELSE [ok |-> res.ok, value |-> res.value,
           readsMaster |-> Falsy(masterPassword), calls |-> TRUE]
encryptPassword(password, masterPassword, stored, storageOk, seed, subtle) ==
  LET master == IF Falsy(masterPassword)
                THEN getMasterPassword(stored, storageOk)
                ELSE masterPassword
      res == encrypt(password, master, seed.salt, seed.iv, subtle)
  IN IF Falsy(master)
     THEN [ok |-> TRUE, value |-> password,
           readsMaster |-> Falsy(masterPassword), calls |-> FALSE]
     ELSE [ok |-> TRUE, value |-> IF res.ok THEN res.value ELSE password,
           readsMaster |-> Falsy(masterPassword), calls |-> TRUE]

\* decryptPassword(encryptedPassword, masterPassword = null)
decryptPasswordNullOnFailure(encryptedPassword, masterPassword, stored, storageOk, subtle) ==
  LET master == IF Falsy(masterPassword)
                THEN getMasterPassword(stored, storageOk)
                ELSE masterPassword
      res == decrypt(encryptedPassword, master, subtle)
  IN IF ~isBase64(encryptedPassword)
     THEN [ok |-> TRUE, value |-> encryptedPassword,
           readsMaster |-> FALSE, calls |-> FALSE]
     ELSE IF Falsy(master)
     THEN [ok |-> TRUE, value |-> Null,
           readsMaster |-> Falsy(masterPassword), calls |-> FALSE]
     ELSE [ok |-> TRUE,
           value |-> IF res.ok THEN res.value ELSE Null,
           readsMaster |-> Falsy(masterPassword), calls |-> TRUE]
decryptPasswordWithoutShapeCheck(encryptedPassword, masterPassword, stored, storageOk, subtle) ==
  LET master == IF Falsy(masterPassword)
                THEN getMasterPassword(stored, storageOk)
                ELSE masterPassword
      res == decrypt(encryptedPassword, master, subtle)
  IN IF Falsy(master)
     THEN [ok |-> TRUE, value |-> encryptedPassword,
           readsMaster |-> Falsy(masterPassword), calls |-> FALSE]
     ELSE [ok |-> TRUE,
           value |-> IF res.ok THEN res.value ELSE encryptedPassword,
           readsMaster |-> Falsy(masterPassword), calls |-> TRUE]
decryptPassword(encryptedPassword, masterPassword, stored, storageOk, subtle) ==
  LET master == IF Falsy(masterPassword)
                THEN getMasterPassword(stored, storageOk)
                ELSE masterPassword
      res == decrypt(encryptedPassword, master, subtle)
  IN IF ~isBase64(encryptedPassword)
     THEN [ok |-> TRUE, value |-> encryptedPassword,
           readsMaster |-> FALSE, calls |-> FALSE]
     ELSE IF Falsy(master)
     THEN [ok |-> TRUE, value |-> encryptedPassword,
           readsMaster |-> Falsy(masterPassword), calls |-> FALSE]
     ELSE [ok |-> TRUE,
           value |-> IF res.ok THEN res.value ELSE encryptedPassword,
           readsMaster |-> Falsy(masterPassword), calls |-> TRUE]

(***************************************************************************)
(* new URL(string): the part of the URL parser the stored and visited      *)
(* URLs use.  There is no base URL, so a string without a scheme fails.    *)
(* http and https are the special schemes met here: slashes after the      *)
(* colon are skipped, the host is lower-cased and must not be empty, the   *)
(* default port is dropped and an empty path becomes "/".  Any other       *)
(* scheme keeps its host as written when "//" follows the colon, and has   *)
(* an opaque path otherwise.  Dot segments, credentials, backslashes and   *)
(* percent-encoding are not modelled: no URL of the model has them.        *)
(***************************************************************************)
CharAt(s, i) == SubSeq(s, i, i)
Chars(table) == {CharAt(table, i) : i \in 1..Len(table)}
AlphaChars == Chars(Upper) \cup Chars(Lower)
DigitChars == Chars(Digits)
SchemeChars == AlphaChars \cup DigitChars \cup {"+", "-", "."}
LowerCaseOf == [c \in Chars(Upper) |-> CharAt(Lower, PosIn(c, Upper))]
IsAlpha(c) == c \in AlphaChars
IsDigit(c) == c \in DigitChars
IsSchemeChar(c) == c \in SchemeChars

RECURSIVE toLowerCase(_)
toLowerCase(s) ==
  IF s = "" THEN ""
  ELSE (IF Head(s) \in DOMAIN LowerCaseOf THEN LowerCaseOf[Head(s)]
        ELSE Head(s)) \o toLowerCase(Tail(s))

\* The first index from `from` on of a character of `set`, Len(s) + 1 if none.
RECURSIVE FirstOf(_, _, _)
FirstOf(s, set, from) ==
  IF from > Len(s) THEN Len(s) + 1
  ELSE IF CharAt(s, from) \in set THEN from
  ELSE FirstOf(s, set, from + 1)

startsWith(s, prefix) ==
  Len(prefix) <= Len(s) /\ SubSeq(s, 1, Len(prefix)) = prefix
endsWith(s, suffix) ==
  Len(suffix) <= Len(s) /\ SubSeq(s, Len(s) - Len(suffix) + 1, Len(s)) = suffix

SpecialSchemes == {"http", "https"}
DefaultPort(scheme) == IF scheme = "http" THEN "80" ELSE "443"

\* An authority (no credentials) as host and port; ok is FALSE for a port
\* that is not a number.
ParseAuthority(authority) ==
  LET colon == FirstOf(authority, {":"}, 1)
      port == SubSeq(authority, colon + 1, Len(authority))
  IN [ok |-> \A i \in 1..Len(port) : IsDigit(CharAt(port, i)),
      hostname |-> SubSeq(authority, 1, colon - 1),
      port |-> port]

URLFailure == [ok |-> FALSE, protocol |-> "", host |-> "", pathname |-> ""]

URL(input) ==
  LET colon == FirstOf(input, {":"}, 1)
      scheme == toLowerCase(SubSeq(input, 1, colon - 1))
      hasScheme == /\ colon <= Len(input)
                   /\ colon > 1
                   /\ IsAlpha(CharAt(input, 1))
                   /\ \A i \in 1..(colon - 1) : IsSchemeChar(CharAt(input, i))
      n == Len(input)
      \* special schemes: the authority starts after the slashes
      slashesEnd == LET others == {i \in (colon + 1)..n : CharAt(input, i) # "/"}
                    IN IF others = {} THEN n + 1
                       ELSE CHOOSE i \in others : \A j \in others : i <= j
      hasAuthority == scheme \in SpecialSchemes
                      \/ SubSeq(input, colon + 1, colon + 2) = "//"
      authStart == IF scheme \in SpecialSchemes THEN slashesEnd ELSE colon + 3
      authEnd == FirstOf(input, {"/", "?", "#"}, authStart)
      authority == ParseAuthority(SubSeq(input, authStart, authEnd - 1))
      pathStart == IF hasAuthority THEN authEnd ELSE colon + 1
      pathEnd == FirstOf(input, {"?", "#"}, pathStart)
      path == SubSeq(input, pathStart, pathEnd - 1)
      hostname == IF scheme \in SpecialSchemes
                  THEN toLowerCase(authority.hostname) ELSE authority.hostname
      host == IF authority.port = ""
                 \/ (scheme \in SpecialSchemes /\ authority.port = DefaultPort(scheme))
              THEN hostname
              ELSE hostname \o ":" \o authority.port
  IN IF ~hasScheme THEN URLFailure
     ELSE IF ~hasAuthority
       THEN [ok |-> TRUE, protocol |-> scheme \o ":", host |-> "", pathname |-> path]
     ELSE IF ~authority.ok \/ (scheme \in SpecialSchemes /\ hostname = "")
       THEN URLFailure
     ELSE [ok |-> TRUE, protocol |-> scheme \o ":", host |-> host,
           pathname |-> IF scheme \in SpecialSchemes /\ path = "" THEN "/" ELSE path]

(***************************************************************************)
(* matchEnvironment, of the content script and of the background script    *)
(***************************************************************************)
\* `${url.protocol}//${url.host}${url.pathname}`.replace(/\/$/, '')
NormalizedKeepingSlash(url) == url.protocol \o "//" \o url.host \o url.pathname
Normalized(url) ==
  LET joined == url.protocol \o "//" \o url.host \o url.pathname
  IN IF endsWith(joined, "/") THEN SubSeq(joined, 1, Len(joined) - 1) ELSE joined

\* null, as an environment
NoEnv == [id |-> 0, loginUrl |-> ""]

\* The loop over the environments, from environment number i on.
RECURSIVE contentMatchLoopLast(_, _, _)
contentMatchLoopLast(normalizedCurrentUrl, environments, i) ==
  IF i > Len(environments) THEN NoEnv
  ELSE LET env == environments[i]
           envUrl == URL(env.loginUrl)
           normalizedEnvUrl == Normalized(envUrl)
           baseUrl == SubSeq(normalizedEnvUrl, 1, Len(normalizedEnvUrl) - 2)
           later == contentMatchLoopLast(normalizedCurrentUrl, environments, i + 1)
       IN
    IF later # NoEnv THEN later
    ELSE IF env.loginUrl = "" THEN NoEnv
    ELSE IF ~envUrl.ok THEN NoEnv
    ELSE IF normalizedCurrentUrl = normalizedEnvUrl THEN env
    ELSE IF endsWith(normalizedEnvUrl, "/*")
            /\ startsWith(normalizedCurrentUrl, baseUrl) THEN env
    ELSE NoEnv
\* s.includes(part)
includes(s, part) ==
  \E i \in 1..(Len(s) - Len(part) + 1) : SubSeq(s, i, i + Len(part) - 1) = part

\* The loop, were the wildcard to ask for a "/" after the prefix.
RECURSIVE contentMatchLoopWholeSegment(_, _, _)
contentMatchLoopWholeSegment(normalizedCurrentUrl, environments, i) ==
  IF i > Len(environments) THEN NoEnv
  ELSE LET env == environments[i]
           envUrl == URL(env.loginUrl)
           normalizedEnvUrl == Normalized(envUrl)
           baseUrl == SubSeq(normalizedEnvUrl, 1, Len(normalizedEnvUrl) - 1)
       IN
    IF env.loginUrl = ""
      THEN contentMatchLoopWholeSegment(normalizedCurrentUrl, environments, i + 1)
    ELSE IF ~envUrl.ok
      THEN contentMatchLoopWholeSegment(normalizedCurrentUrl, environments, i + 1)
    ELSE IF normalizedCurrentUrl = normalizedEnvUrl THEN env
    ELSE IF endsWith(normalizedEnvUrl, "/*")
            /\ startsWith(normalizedCurrentUrl, baseUrl) THEN env
    ELSE contentMatchLoopWholeSegment(normalizedCurrentUrl, environments, i + 1)
\* The loop, with the contains match the comment in the code says was removed.
RECURSIVE contentMatchLoopContains(_, _, _)
contentMatchLoopContains(normalizedCurrentUrl, environments, i) ==
  IF i > Len(environments) THEN NoEnv
  ELSE LET env == environments[i]
           envUrl == URL(env.loginUrl)
           normalizedEnvUrl == Normalized(envUrl)
           baseUrl == SubSeq(normalizedEnvUrl, 1, Len(normalizedEnvUrl) - 2)
       IN
    IF env.loginUrl = ""
      THEN contentMatchLoopContains(normalizedCurrentUrl, environments, i + 1)
    ELSE IF ~envUrl.ok
      THEN contentMatchLoopContains(normalizedCurrentUrl, environments, i + 1)
    ELSE IF normalizedCurrentUrl = normalizedEnvUrl THEN env
    ELSE IF endsWith(normalizedEnvUrl, "/*")
            /\ startsWith(normalizedCurrentUrl, baseUrl) THEN env
    ELSE IF includes(normalizedCurrentUrl, normalizedEnvUrl) THEN env
    ELSE contentMatchLoopContains(normalizedCurrentUrl, environments, i + 1)
\* The loop, were new URL(env.loginUrl) outside the inner try: a loginUrl
\* that fails to parse ends the lookup in the outer catch.
RECURSIVE contentMatchLoopAborting(_, _, _)
contentMatchLoopAborting(normalizedCurrentUrl, environments, i) ==
  IF i > Len(environments) THEN NoEnv
  ELSE LET env == environments[i]
           envUrl == URL(env.loginUrl)
           normalizedEnvUrl == Normalized(envUrl)
           baseUrl == SubSeq(normalizedEnvUrl, 1, Len(normalizedEnvUrl) - 2)
       IN
    IF env.loginUrl = ""
      THEN contentMatchLoopAborting(normalizedCurrentUrl, environments, i + 1)
    ELSE IF ~envUrl.ok THEN NoEnv
    ELSE IF normalizedCurrentUrl = normalizedEnvUrl THEN env
    ELSE IF endsWith(normalizedEnvUrl, "/*")
            /\ startsWith(normalizedCurrentUrl, baseUrl) THEN env
    ELSE contentMatchLoopAborting(normalizedCurrentUrl, environments, i + 1)
\* The loop, were a loginUrl that fails to parse kept as it is and compared.
RECURSIVE contentMatchLoopKeepingRaw(_, _, _)
contentMatchLoopKeepingRaw(normalizedCurrentUrl, environments, i) ==
  IF i > Len(environments) THEN NoEnv
  ELSE LET env == environments[i]
           envUrl == URL(env.loginUrl)
           normalizedEnvUrl == IF envUrl.ok THEN Normalized(envUrl)
                               ELSE env.loginUrl
           baseUrl == SubSeq(normalizedEnvUrl, 1, Len(normalizedEnvUrl) - 2)
       IN
    IF env.loginUrl = ""
      THEN contentMatchLoopKeepingRaw(normalizedCurrentUrl, environments, i + 1)
    ELSE IF normalizedCurrentUrl = normalizedEnvUrl THEN env
    ELSE IF endsWith(normalizedEnvUrl, "/*")
            /\ startsWith(normalizedCurrentUrl, baseUrl) THEN env
    ELSE contentMatchLoopKeepingRaw(normalizedCurrentUrl, environments, i + 1)
RECURSIVE contentMatchLoop(_, _, _)
contentMatchLoop(normalizedCurrentUrl, environments, i) ==
  IF i > Len(environments) THEN NoEnv
  ELSE LET env == environments[i]
           envUrl == URL(env.loginUrl)
           normalizedEnvUrl == Normalized(envUrl)
           baseUrl == SubSeq(normalizedEnvUrl, 1, Len(normalizedEnvUrl) - 2)
       IN
    IF env.loginUrl = ""
      THEN contentMatchLoop(normalizedCurrentUrl, environments, i + 1)
    ELSE IF ~envUrl.ok
      THEN contentMatchLoop(normalizedCurrentUrl, environments, i + 1)
    ELSE IF normalizedCurrentUrl = normalizedEnvUrl THEN env
    ELSE IF endsWith(normalizedEnvUrl, "/*")
            /\ startsWith(normalizedCurrentUrl, baseUrl) THEN env
    ELSE contentMatchLoop(normalizedCurrentUrl, environments, i + 1)

\* matchEnvironment(currentUrl) of content.js; environments is what
\* chrome.storage.local holds, storageOk whether the read succeeds.
contentMatchEnvironment(currentUrl, environments, storageOk) ==
  LET url == URL(currentUrl)
      normalizedCurrentUrl == IF url.ok THEN Normalized(url) ELSE currentUrl
  IN IF currentUrl = "" THEN NoEnv
     ELSE IF ~storageOk THEN NoEnv
     ELSE contentMatchLoop(normalizedCurrentUrl, environments, 1)

RECURSIVE backgroundMatchLoop(_, _, _)
backgroundMatchLoop(normalizedCurrentUrl, environments, i) ==
  IF i > Len(environments) THEN NoEnv
  ELSE LET env == environments[i]
           envUrl == URL(env.loginUrl)
           normalizedEnvUrl == Normalized(envUrl)
           baseUrl == SubSeq(normalizedEnvUrl, 1, Len(normalizedEnvUrl) - 2)
       IN
    IF env.loginUrl = ""
      THEN backgroundMatchLoop(normalizedCurrentUrl, environments, i + 1)
    ELSE IF ~envUrl.ok
      THEN backgroundMatchLoop(normalizedCurrentUrl, environments, i + 1)
    ELSE IF normalizedCurrentUrl = normalizedEnvUrl THEN env
    ELSE IF endsWith(normalizedEnvUrl, "/*")
            /\ startsWith(normalizedCurrentUrl, baseUrl) THEN env
    ELSE backgroundMatchLoop(normalizedCurrentUrl, environments, i + 1)

\* matchEnvironment of the background script, were the candidate to keep
\* its trailing slash while the loginUrl loses it
backgroundMatchEnvironmentKeepingSlash(urlString, environments, storageOk) ==
  LET url == URL(urlString)
      normalizedCurrentUrl == IF url.ok THEN NormalizedKeepingSlash(url)
                              ELSE urlString
  IN IF urlString = "" THEN NoEnv
     ELSE IF ~storageOk THEN NoEnv
     ELSE backgroundMatchLoop(normalizedCurrentUrl, environments, 1)
\* matchEnvironment(urlString) of the background script
backgroundMatchEnvironment(urlString, environments, storageOk) ==
  LET url == URL(urlString)
      normalizedCurrentUrl == IF url.ok THEN Normalized(url) ELSE urlString
  IN IF urlString = "" THEN NoEnv
     ELSE IF ~storageOk THEN NoEnv
     ELSE backgroundMatchLoop(normalizedCurrentUrl, environments, 1)

(***************************************************************************)
(* Inputs of the model                                                     *)
(***************************************************************************)
MaxPlainLen == 2
MaxSeed == 1

SeqsUpTo(S, n) == UNION {[1..k -> S] : k \in 0..n}

\* Characters of the plaintexts: one of one, one of two and one of three
\* bytes in UTF-8 (the last is U+FEFF).
PlainChars == {charCodeOf("a"), EAcute[1], BOM[1]}
Plaintexts == SeqsUpTo(PlainChars, MaxPlainLen) \ {<<>>}
Secrets == {Str("s1"), Str("s2"), Str("m") \o EAcute}
\* The salts and IVs crypto.getRandomValues may give to one call of encrypt.
SeedPairs == {[salt |-> k, iv |-> MaxSeed - k] : k \in 0..MaxSeed}

\* Passwords typed into the forms, and values found in storage that no call
\* of encrypt produced: not of base64 shape, of base64 shape, empty.
Passwords == {Str("pw1"), Str("p@ss"), BOM \o Str("a")}
LegacyValues == {<<>>, Str("p@ss"), Str("abcd"), Str("abc"), Str("ab=="), Str("=")}

\* The matcher's inputs.  loginUrl values as handleEnvSubmit stores them
\* (anything new URL accepts) and as a restored backup can hold them
\* (anything at all, also none), and the URLs of visited pages.
MaxEnvs == 2
LoginUrls == {"", "not a url", "https://a.com/login",
              "HTTPS://A.com:443/login/?next=1", "https://a.com/sso/*",
              "https://a.com/*", "https://a.com", "chrome://extensions"}
CandidateUrls == {"", "not a url", "https://a.com/login",
                  "https://a.com/login/?next=1#top", "https://a.com/login//",
                  "https://a.com/sso/step2", "https://a.com/ssoextra",
                  "https://a.com/dashboard", "https://a.com.evil.com/login",
                  "https://b.com/sso/step2",
                  "chrome://extensions", "chrome://extensions/"}
\* The popup's and the panel's inputs: passwords typed (one of base64
\* shape), master passwords, the clock Date.now() reads, and the one draw
\* of salt and IV the handlers' calls of encryptPassword make.
MaxAccounts == 2
MaxNow == 2
MaxPasswordLen == 4
AppPasswords == {Str("pw1"), Str("abcd")}
AppSecrets == {Str("s1"), Str("s2")}
AppSeed == [salt |-> 0, iv |-> 1]
MaxStoredEnvs == 3
MaxUrlChanges == 3

\* The account modal: edit-mode loads that have not called back yet, and
\* the accounts of the selected environment
MaxLoads == 2
MaxModalAccounts == 3

\* The account writers of the popup and of the panel: the clock the ids
\* are made from, and the environments the accounts belong to
MaxWriterNow == 3
WriterEnvIds == {1, 2}

\* Calls of encrypt and decrypt in flight together: what each is called
\* with. The blobs given to decrypt are one encrypt returned and one cut.
MaxCalls == 2
ConcPlain == Str("pw")
ConcSecrets == {Str("s1"), Str("s2")}
ConcBlob == encrypt(ConcPlain, Str("s1"), 0, 1, TRUE).value
ConcArguments ==
  {[op |-> "encrypt", text |-> ConcPlain, password |-> s] : s \in ConcSecrets}
    \cup {[op |-> "decrypt", text |-> ConcBlob, password |-> s] :
            s \in ConcSecrets}
    \cup {[op |-> "decrypt", text |-> SubSeq(ConcBlob, 1, 40),
            password |-> Str("s1")]}

\* What isBase64 is called with: strings of letters, of '/', of '=' and of a
\* character outside the alphabet, and values that are not strings.
MaxShapeLen == 3
ShapeChars == {charCodeOf("a"), charCodeOf("/"), B64Pad, charCodeOf("@")}
ShapeValues ==
  {JsString(chars) : chars \in SeqsUpTo(ShapeChars, MaxShapeLen)}
    \cup {JsNull, JsUndefined, JsBoolean(TRUE), JsBoolean(FALSE),
          JsNumber(0), JsNumber(12), JsObject,
          JsArray(<<>>), JsArray(<<Null>>), JsArray(<<Str("ab")>>),
          JsArray(<<Str("a"), Str("b")>>)}

PanelEnvLists == {<<>>, <<"https://a.com/login", "https://a.com/sso/*">>,
                  <<"https://a.com/sso/*">>}
PanelUrls == {"https://a.com/login", "https://a.com/sso/step2",
              "https://a.com/dashboard"}
PanelLoginUrls == <<"https://a.com/login", "https://a.com/sso/*">>
EnvLists ==
  UNION {[1..n -> LoginUrls] : n \in 0..MaxEnvs}
Environments(urls) == [i \in 1..Len(urls) |-> [id |-> i, loginUrl |-> urls[i]]]

VARIABLES
  cPlain,     \* cipher: the plaintext given to encrypt
  cSecret,    \* cipher: the password given to encrypt
  cBlob,      \* cipher: the blob encrypt returned, Null before
  cLast,      \* cipher: the last call, its arguments and its result
  cSeeds,     \* cipher: the salt and IV of each call of encrypt that returned
  wMaster,    \* wrappers: chrome.storage.local's masterPassword, Null if unset
  wOrig,      \* wrappers: what encryptPassword returned, and from what
  wStored,    \* wrappers: the password field as it is in storage now
  wLast,      \* wrappers: the last call, its arguments and its result
  wSet,       \* wrappers: what the last setMasterPassword that returned true set
  mUrl,          \* matcher: the URL of the page
  mEnvironments, \* matcher: chrome.storage.local's environments
  mStorageOk,    \* matcher: whether chrome.storage.local.get succeeds
  mResult,       \* matcher: what each script's matchEnvironment returned
  aMaster,    \* chrome.storage.local's masterPassword, Null if unset
  aAccounts,  \* chrome.storage.local's accounts
  aNow,       \* the last value Date.now() returned
  aForm,      \* the popup's account form and currentAccountId
  aFill,      \* the password a login wrote into the page's form
  sEnvironments,  \* store: chrome.storage.local's environments, as their ids
  sAccounts,      \* store: chrome.storage.local's accounts, as id and envId
  sNow,           \* store: the last value Date.now() returned
  sPopupEnv,      \* store: the popup's currentEnvId, 0 for null
  sPanelEnv,      \* store: the floating panel's currentEnvId, 0 for null
  sDelete,        \* store: the popup's handleDeleteEnv in progress
  sDone,          \* store: the handleDeleteEnv that has just finished
  pHref,            \* panel: window.location.href of the page
  pCreated,         \* panel: whether initFloatingPanel made the FloatingPanel
  pLastCheckedUrl,  \* panel: lastCheckedUrl
  pShown,           \* panel: whether the panel's display is not 'none'
  pCurrentEnvId,    \* panel: currentEnvId, 0 for null
  pTimers,          \* panel: the pending setTimeout(checkDomainMatch, 100) calls
  pPending,         \* panel: the URLs matchEnvironment is awaited for, oldest first
  pChanges,         \* panel: how many times the URL has changed
  pEnvironments, \* panel: chrome.storage.local's environments
  bValue,   \* isBase64: the value it is called with
  bResult,  \* isBase64: what the call did, NotCalled before
  kInstance,  \* concurrent calls: the fields of the cryptoUtils singleton
  kCalls,     \* concurrent calls: each call in flight, its locals and where it waits
  oAccounts,          \* modal: chrome.storage.local's accounts, each its id and username
  oCurrentAccountId,  \* modal: this.currentAccountId of the popup, 0 for null
  oForm,              \* modal: the username field of the account form
  oOpened,            \* modal: how openAccountModal was last called, "none" once the modal closed
  oLoads,             \* modal: the edit-mode loads of openAccountModal still to call back
  oSubmit,            \* modal: handleAccountSubmit in flight
  oNow,               \* modal: Date.now()
  oDone,              \* modal: the accounts before and after the last submit that stored
  uAccounts,  \* writers: chrome.storage.local's accounts, each its id and envId
  uPopup,     \* writers: the popup's handler in flight
  uPanel,     \* writers: the panel's handler in flight
  uNow,       \* writers: Date.now()
  uAdded,     \* writers: the ids of the accounts whose add reported success
  uDeleted    \* writers: the ids of the accounts a delete handler removed

cipherVars == <<cPlain, cSecret, cBlob, cLast, cSeeds>>
wrapVars == <<wMaster, wOrig, wStored, wLast, wSet>>
matchVars == <<mUrl, mEnvironments, mStorageOk, mResult>>
appVars == <<aMaster, aAccounts, aNow, aForm, aFill>>
storeVars == <<sEnvironments, sAccounts, sNow, sPopupEnv, sPanelEnv, sDelete, sDone>>
panelVars == <<pHref, pCreated, pLastCheckedUrl, pShown, pCurrentEnvId, pTimers, pPending, pChanges, pEnvironments>>
shapeVars == <<bValue, bResult>>
concVars == <<kInstance, kCalls>>
modalVars == <<oAccounts, oCurrentAccountId, oForm, oOpened, oLoads, oSubmit, oNow, oDone>>
writerVars == <<uAccounts, uPopup, uPanel, uNow, uAdded, uDeleted>>
vars == <<cipherVars, wrapVars, matchVars, appVars, storeVars, panelVars, shapeVars, concVars, modalVars, writerVars>>

(***************************************************************************)
(* The cipher alone: encrypt once, then decrypt what it returned, as it    *)
(* is, with one byte changed, or cut short                                 *)
(***************************************************************************)
NoCall == [op |-> "none", text |-> <<>>, secret |-> <<>>, at |-> 0,
           subtle |-> TRUE, res |-> Throw]
NoWrapCall == [op |-> "none", arg |-> <<>>, master |-> Null, storageOk |-> TRUE,
              subtle |-> TRUE, seed |-> [salt |-> 0, iv |-> 0],
              res |-> [ok |-> TRUE, value |-> <<>>, readsMaster |-> FALSE,
                       calls |-> FALSE],
              set |-> Null]
NoOrig == [value |-> Null, password |-> <<>>, master |-> Null, stored |-> Null]

CipherIdle ==
  /\ cPlain = <<>>
  /\ cSecret = <<>>
  /\ cBlob = Null
  /\ cLast = NoCall
  /\ cSeeds = <<>>
WrapIdle ==
  /\ wMaster = Null
  /\ wOrig = NoOrig
  /\ wStored = Null
  /\ wLast = NoWrapCall
  /\ wSet = Null

\* matchEnvironment has not run
NotRun == [id |-> -1, loginUrl |-> ""]
MatchIdle ==
  /\ mUrl = ""
  /\ mEnvironments = <<>>
  /\ mStorageOk = TRUE
  /\ mResult = [content |-> NotRun, background |-> NotRun]

\* The account form, closed and reset.  `from` records where the value of
\* the password field comes from: "typed" by the user, "decrypted" from the
\* stored value by decryptPassword, or the "stored" value as it is.
NoForm == [open |-> FALSE, currentAccountId |-> 0, password |-> <<>>,
           from |-> "typed"]
NoFill == [by |-> "none", stored |-> <<>>, key |-> Null, value |-> <<>>,
           master |-> Null, storageOk |-> TRUE, subtle |-> TRUE]
AppIdle ==
  /\ aMaster = Null
  /\ aAccounts = <<>>
  /\ aNow = 0
  /\ aForm = NoForm
  /\ aFill = NoFill

NoDelete == [pc |-> "idle", envId |-> 0, accounts |-> <<>>]
NoDone == [envId |-> 0, confirmed |-> FALSE, environments |-> <<>>,
           accounts |-> <<>>]
StoreIdle ==
  /\ sEnvironments = <<>>
  /\ sAccounts = <<>>
  /\ sNow = 0
  /\ sPopupEnv = 0
  /\ sPanelEnv = 0
  /\ sDelete = NoDelete
  /\ sDone = NoDone

PanelIdle ==
  /\ pHref = ""
  /\ pCreated = FALSE
  /\ pLastCheckedUrl = ""
  /\ pShown = FALSE
  /\ pCurrentEnvId = 0
  /\ pTimers = 0
  /\ pPending = <<>>
  /\ pChanges = 0
  /\ pEnvironments = <<>>

NotCalled == [called |-> FALSE, ok |-> TRUE, value |-> FALSE]
ShapeIdle ==
  /\ bValue = JsNull
  /\ bResult = NotCalled

\* new CryptoUtils(): this.algorithm and this.keyUsage
NewCryptoUtils ==
  [algorithm |-> [name |-> "AES-GCM", length |-> 256],
   keyUsage |-> {"encrypt", "decrypt"}]
ConcIdle ==
  /\ kInstance = NewCryptoUtils
  /\ kCalls = <<>>

NoSubmit == [pc |-> "idle", username |-> "", opened |-> "none"]
NoStored == [opened |-> "none", before |-> <<>>, after |-> <<>>]
ModalIdle ==
  /\ oAccounts = <<>>
  /\ oCurrentAccountId = 0
  /\ oForm = ""
  /\ oOpened = "none"
  /\ oLoads = {}
  /\ oSubmit = NoSubmit
  /\ oNow = 0
  /\ oDone = NoStored

NoHandler == [op |-> "none", pc |-> "idle", accounts |-> <<>>, arg |-> 0]
WritersIdle ==
  /\ uAccounts = <<>>
  /\ uPopup = NoHandler
  /\ uPanel = NoHandler
  /\ uNow = 0
  /\ uAdded = {}
  /\ uDeleted = {}

CipherInit ==
  /\ cPlain \in Plaintexts
  /\ cSecret \in Secrets
  /\ cBlob = Null
  /\ cLast = NoCall
  /\ cSeeds = <<>>
  /\ WrapIdle
  /\ MatchIdle
  /\ AppIdle
  /\ StoreIdle
  /\ PanelIdle
  /\ ShapeIdle
  /\ ConcIdle
  /\ ModalIdle
  /\ WritersIdle

CipherEncrypt ==
  /\ cBlob = Null
  /\ \E seed \in SeedPairs, subtle \in BOOLEAN :
       LET res == encrypt(cPlain, cSecret, seed.salt, seed.iv, subtle) IN
       /\ cBlob' = IF res.ok THEN res.value ELSE Null
       /\ cLast' = [op |-> "encrypt", text |-> cPlain, secret |-> cSecret,
                    at |-> 0, subtle |-> subtle, res |-> res]
       /\ cSeeds' = IF res.ok THEN Append(cSeeds, seed) ELSE cSeeds
  /\ UNCHANGED <<cPlain, cSecret>>

\* encrypt(p, s) called a second time with the same p and s
CipherEncryptAgain ==
  /\ cBlob # Null
  /\ cLast.op = "encrypt"
  /\ \E seed \in SeedPairs :
       /\ cLast' = [op |-> "encryptAgain", text |-> cPlain,
                    secret |-> cSecret, at |-> 0, subtle |-> TRUE,
                    res |-> encrypt(cPlain, cSecret, seed.salt, seed.iv, TRUE)]
       /\ cSeeds' = Append(cSeeds, seed)
  /\ UNCHANGED <<cPlain, cSecret, cBlob>>

CipherDecrypt ==
  /\ cBlob # Null
  /\ cLast.op = "encrypt"
  /\ \E password \in Secrets, subtle \in BOOLEAN :
       cLast' = [op |-> "decrypt", text |-> cBlob, secret |-> password,
                 at |-> 0, subtle |-> subtle,
                 res |-> decrypt(cBlob, password, subtle)]
  /\ UNCHANGED <<cPlain, cSecret, cBlob, cSeeds>>

\* The blob with byte number at (from 1) of its decoded form changed.
TamperDeltas == {1, 128}
Tampered(blob, at, delta) ==
  LET bytes == atob(blob).bytes IN
  btoa([bytes EXCEPT ![at] = (@ + delta) % 256])

CipherDecryptTampered ==
  /\ cBlob # Null
  /\ cLast.op = "encrypt"
  /\ \E at \in 1..Len(atob(cBlob).bytes), delta \in TamperDeltas :
       LET text == Tampered(cBlob, at, delta) IN
       cLast' = [op |-> "decryptTampered", text |-> text, secret |-> cSecret,
                 at |-> at, subtle |-> TRUE,
                 res |-> decrypt(text, cSecret, TRUE)]
  /\ UNCHANGED <<cPlain, cSecret, cBlob, cSeeds>>

\* The blob cut to its first n characters.
CutLengths == {0, 1, 4, 36, 40, 56}
CipherDecryptCut ==
  /\ cBlob # Null
  /\ cLast.op = "encrypt"
  /\ \E n \in CutLengths :
       LET text == SubSeq(cBlob, 1, n) IN
       cLast' = [op |-> "decryptCut", text |-> text, secret |-> cSecret,
                 at |-> n, subtle |-> TRUE,
                 res |-> decrypt(text, cSecret, TRUE)]
  /\ UNCHANGED <<cPlain, cSecret, cBlob, cSeeds>>

CipherNext ==
  \/ CipherEncrypt /\ UNCHANGED <<wrapVars, matchVars, appVars, storeVars, panelVars, shapeVars, concVars, modalVars, writerVars>>
  \/ CipherEncryptAgain /\ UNCHANGED <<wrapVars, matchVars, appVars, storeVars, panelVars, shapeVars, concVars, modalVars, writerVars>>
  \/ CipherDecrypt /\ UNCHANGED <<wrapVars, matchVars, appVars, storeVars, panelVars, shapeVars, concVars, modalVars, writerVars>>
  \/ CipherDecryptTampered /\ UNCHANGED <<wrapVars, matchVars, appVars, storeVars, panelVars, shapeVars, concVars, modalVars, writerVars>>
  \/ CipherDecryptCut /\ UNCHANGED <<wrapVars, matchVars, appVars, storeVars, panelVars, shapeVars, concVars, modalVars, writerVars>>

SpecCipher == CipherInit /\ [][CipherNext]_vars

(***************************************************************************)
(* Claims on the cipher                                                    *)
(***************************************************************************)
\* C1: round trip: decrypt(encrypt(p, s), s) returns exactly p, for every
\* non-empty plaintext p and every secret s.
C1_RoundTrip ==
  (cLast.op = "decrypt" /\ cLast.secret = cSecret /\ cLast.subtle)
    => (cLast.res.ok /\ cLast.res.value = cPlain)

C5_TamperFails ==
  (cLast.op = "decryptTampered" /\ cLast.at > 28) => ~cLast.res.ok
C5_Witness ==
  /\ cLast.op = "decryptTampered"
  /\ cLast.at > 28
  /\ cLast.text # cBlob
  /\ Len(atob(cLast.text).bytes) = Len(atob(cBlob).bytes)

\* The two calls of encrypt that returned drew different salts and IVs.
DrawsDiffer == cSeeds[1] # cSeeds[2]

\* C21: two calls encrypt(p, s) with the same p and s, each with the salt
\* and IV it drew itself (the two draws differ), return two different
\* blobs, and each of the two decrypts back to p under s.
C21_TwoBlobsBothDecrypt ==
  (cLast.op = "encryptAgain" /\ DrawsDiffer) =>
    /\ cLast.res.ok
    /\ cLast.res.value # cBlob
    /\ decrypt(cBlob, cSecret, TRUE) = Return(cPlain)
    /\ decrypt(cLast.res.value, cSecret, TRUE) = Return(cPlain)

\* The first half of it, on its own.
C21_TwoBlobsDiffer ==
  (cLast.op = "encryptAgain" /\ DrawsDiffer) =>
    (cLast.res.ok /\ cLast.res.value # cBlob)

\* C22: a blob encrypt returned decodes from base64 to the salt (16 bytes),
\* the IV (12 bytes) and the ciphertext with its tag, 28 + the byte length
\* of the plaintext + 16 bytes in all; the bytes decrypt takes as salt
\* (0..15), as IV (16..27) and as ciphertext (28 on) are those encrypt
\* wrote, and decrypt under the same secret accepts them.
C22_BlobLayout ==
  cBlob # Null =>
    LET decoded == base64ToArrayBuffer(cBlob)
        data == decoded.bytes
        salt == generateSalt(cSeeds[1].salt)
        iv == generateIV(cSeeds[1].iv)
    IN /\ decoded.ok
       /\ Len(data) = 28 + Len(TextEncode(cPlain)) + 16
       /\ Slice(data, 0, 16) = salt
       /\ Slice(data, 16, 28) = iv
       /\ Slice(data, 28, Len(data))
            = subtleEncrypt(deriveKey(cSecret, salt), iv, TextEncode(cPlain))
       /\ decrypt(cBlob, cSecret, TRUE).ok
\* A blob of a plaintext that has more bytes than characters.
C22_Witness ==
  /\ cBlob # Null
  /\ cLast.op = "encrypt"
  /\ Len(TextEncode(cPlain)) > Len(cPlain)
  /\ Len(base64ToArrayBuffer(cBlob).bytes) > 28 + Len(cPlain) + 16

(***************************************************************************)
(* The wrappers alone: the master password is set, changed or removed; a   *)
(* password is encrypted for storage; the stored value is damaged; a       *)
(* stored value, or one that was never encrypted, is decrypted             *)
(***************************************************************************)
WrapInit ==
  /\ wMaster \in {Null} \cup Secrets
  /\ wOrig = NoOrig
  /\ wStored = Null
  /\ wLast = NoWrapCall
  /\ wSet = Null
  /\ CipherIdle
  /\ MatchIdle
  /\ AppIdle
  /\ StoreIdle
  /\ PanelIdle
  /\ ShapeIdle
  /\ ConcIdle
  /\ ModalIdle
  /\ WritersIdle

WrapSetMasterPassword ==
  /\ wLast.op # "decryptPassword"
  /\ \E password \in Secrets \cup {<<>>}, storageOk \in BOOLEAN :
       LET set == setMasterPassword(wMaster, password, storageOk) IN
       /\ wMaster' = set.stored
       /\ wSet' = IF set.result THEN password ELSE wSet
  /\ UNCHANGED <<wOrig, wStored, wLast>>

WrapEncryptPassword ==
  /\ wOrig = NoOrig
  /\ \E password \in Passwords, seed \in SeedPairs,
        subtle \in BOOLEAN, storageOk \in BOOLEAN :
       LET res == encryptPassword(password, Null, wMaster, storageOk, seed, subtle) IN
       /\ wLast' = [op |-> "encryptPassword", arg |-> password,
                    master |-> wMaster, storageOk |-> storageOk,
                    subtle |-> subtle, seed |-> seed, res |-> res,
                    set |-> wSet]
       /\ wOrig' = [value |-> res.value, password |-> password,
                    master |-> IF res.value = password THEN Null ELSE wMaster,
                    stored |-> wMaster]
       /\ wStored' = res.value
  /\ UNCHANGED <<wMaster, wSet>>

\* The stored value damaged: one byte of the ciphertext or of the tag
\* changed, or the text cut short.
WrapDamage ==
  /\ wOrig.master # Null
  /\ wStored = wOrig.value
  /\ wLast.op = "encryptPassword"
  /\ \/ wStored' = Tampered(wStored, 29, 1)
     \/ wStored' = Tampered(wStored, Len(atob(wStored).bytes), 128)
     \/ wStored' = SubSeq(wStored, 1, 40)
  /\ UNCHANGED <<wMaster, wOrig, wLast, wSet>>

WrapDecryptPassword ==
  /\ wLast.op # "decryptPassword"
  /\ \E value \in (LegacyValues \cup {wStored}) \ {Null},
        subtle \in BOOLEAN, storageOk \in BOOLEAN :
       wLast' = [op |-> "decryptPassword", arg |-> value,
                 master |-> wMaster, storageOk |-> storageOk,
                 subtle |-> subtle, seed |-> [salt |-> 0, iv |-> 0],
                 res |-> decryptPassword(value, Null, wMaster, storageOk, subtle),
                 set |-> wSet]
  /\ UNCHANGED <<wMaster, wOrig, wStored, wSet>>

WrapNext ==
  \/ WrapSetMasterPassword /\ UNCHANGED <<cipherVars, matchVars, appVars, storeVars, panelVars, shapeVars, concVars, modalVars, writerVars>>
  \/ WrapEncryptPassword /\ UNCHANGED <<cipherVars, matchVars, appVars, storeVars, panelVars, shapeVars, concVars, modalVars, writerVars>>
  \/ WrapDamage /\ UNCHANGED <<cipherVars, matchVars, appVars, storeVars, panelVars, shapeVars, concVars, modalVars, writerVars>>
  \/ WrapDecryptPassword /\ UNCHANGED <<cipherVars, matchVars, appVars, storeVars, panelVars, shapeVars, concVars, modalVars, writerVars>>

SpecWrap == WrapInit /\ [][WrapNext]_vars

(***************************************************************************)
(* Claims on the wrappers                                                  *)
(***************************************************************************)
\* The master password a call found: none when the read failed or the
\* stored one is missing or empty.
MasterFound(call) ==
  IF ~call.storageOk \/ Falsy(call.master) THEN Null ELSE call.master

\* The argument of the call is a blob encrypt returned, undamaged, and the
\* call has the master password it was encrypted under and crypto.subtle.
CanDecrypt(call) ==
  /\ wOrig.master # Null
  /\ call.arg = wOrig.value
  /\ MasterFound(call) = wOrig.master
  /\ call.subtle

\* C6: decryptPassword never throws; given a value of base64 shape that
\* cannot be decrypted (no master password, a wrong one, a damaged or too
\* short blob) it returns the value unchanged.
C6_DecryptPasswordFallsBack ==
  wLast.op = "decryptPassword" =>
    /\ wLast.res.ok
    /\ (isBase64(wLast.arg) /\ ~CanDecrypt(wLast)) => wLast.res.value = wLast.arg
C6_Witness ==
  /\ wLast.op = "decryptPassword"
  /\ wOrig.master # Null
  /\ wLast.arg = wOrig.value
  /\ MasterFound(wLast) \notin {Null, wOrig.master}
  /\ wLast.subtle
  /\ wLast.res.calls
C6_WitnessDamaged ==
  /\ wLast.op = "decryptPassword"
  /\ wOrig.master # Null
  /\ wLast.arg # wOrig.value
  /\ wLast.arg = wStored
  /\ MasterFound(wLast) = wOrig.master
  /\ wLast.subtle

\* C7: encryptPassword never throws: without a master password it returns
\* the password, when encrypt throws it returns the password, and otherwise
\* it returns the blob of encrypt under the stored master password.
C7_EncryptPasswordFallsBack ==
  wLast.op = "encryptPassword" =>
    /\ wLast.res.ok
    /\ MasterFound(wLast) = Null => wLast.res.value = wLast.arg
    /\ (MasterFound(wLast) # Null /\ ~wLast.subtle) => wLast.res.value = wLast.arg
    /\ (MasterFound(wLast) # Null /\ wLast.subtle) =>
         /\ wLast.res.value = encrypt(wLast.arg, wLast.master, wLast.seed.salt,
                                      wLast.seed.iv, TRUE).value
         /\ wLast.res.value # wLast.arg
C7_Witness ==
  /\ wLast.op = "encryptPassword"
  /\ MasterFound(wLast) # Null
  /\ ~wLast.subtle
  /\ wLast.res.value = wLast.arg
C7_WitnessEncrypted ==
  /\ wLast.op = "encryptPassword"
  /\ MasterFound(wLast) # Null
  /\ wLast.subtle
  /\ isBase64(wLast.res.value)

\* C8: a value that is not of base64 shape, the empty string included, is
\* returned unchanged by decryptPassword, which then neither reads the
\* master password nor calls decrypt.
C8_NotBase64Unchanged ==
  (wLast.op = "decryptPassword" /\ ~isBase64(wLast.arg)) =>
    /\ wLast.res.value = wLast.arg
    /\ ~wLast.res.readsMaster
    /\ ~wLast.res.calls
C8_Witness ==
  /\ wLast.op = "decryptPassword"
  /\ wLast.arg = Str("p@ss")
  /\ MasterFound(wLast) # Null
  /\ wLast.subtle
C8_WitnessEmpty ==
  /\ wLast.op = "decryptPassword"
  /\ wLast.arg = <<>>
  /\ MasterFound(wLast) # Null

\* What the last call returned if it worked under the secret s.
UnderSecret(call, s) ==
  IF call.op = "encryptPassword"
  THEN LET e == encrypt(call.arg, s, call.seed.salt, call.seed.iv, TRUE)
       IN call.res.value = e.value /\ decrypt(call.res.value, s, TRUE).ok
  ELSE LET d == decrypt(call.arg, s, TRUE)
       IN call.res.value = IF d.ok THEN d.value ELSE call.arg

\* The last call was made after a setMasterPassword returned true, read
\* chrome.storage.local and had crypto.subtle; a decryptPassword was given a
\* value of base64 shape.
AfterSet(call) ==
  /\ call.op \in {"encryptPassword", "decryptPassword"}
  /\ call.set # Null
  /\ call.storageOk
  /\ call.subtle
  /\ call.op = "decryptPassword" => isBase64(call.arg)

C19_WitnessEncrypt ==
  /\ AfterSet(wLast)
  /\ wLast.op = "encryptPassword"
  /\ wLast.set # <<>>
  /\ wLast.res.value # wLast.arg

\* C28: for every password and every master password in storage, set or
\* absent, that is the same at both calls, decryptPassword of what
\* encryptPassword returned is the password again; and what encrypt returned
\* has the shape isBase64 accepts.  The decrypting call is one whose storage
\* read and crypto.subtle work.
C28_WrapperRoundTrip ==
  (/\ wLast.op = "decryptPassword"
   /\ wOrig # NoOrig
   /\ wLast.arg = wOrig.value
   /\ wLast.master = wOrig.stored
   /\ wLast.storageOk /\ wLast.subtle) =>
    /\ wLast.res.value = wOrig.password
    /\ wOrig.master # Null => isBase64(wOrig.value)
\* the same, of passwords that do not start with U+FEFF
C28_RoundTripWithoutBOM ==
  (/\ wLast.op = "decryptPassword"
   /\ wOrig # NoOrig
   /\ wLast.arg = wOrig.value
   /\ wLast.master = wOrig.stored
   /\ wLast.storageOk /\ wLast.subtle
   /\ SubSeq(wOrig.password, 1, 1) # BOM) =>
    /\ wLast.res.value = wOrig.password
    /\ wOrig.master # Null => isBase64(wOrig.value)

(***************************************************************************)
(* The matcher on its own: a page URL and a stored list of environments,   *)
(* matched by the content script and by the background script              *)
(***************************************************************************)
MatchInit ==
  /\ mUrl \in CandidateUrls
  /\ mEnvironments \in {Environments(urls) : urls \in EnvLists}
  /\ mStorageOk \in BOOLEAN
  /\ mResult = [content |-> NotRun, background |-> NotRun]
  /\ CipherIdle
  /\ WrapIdle
  /\ AppIdle
  /\ StoreIdle
  /\ PanelIdle
  /\ ShapeIdle
  /\ ConcIdle
  /\ ModalIdle
  /\ WritersIdle

MatchContent ==
  /\ mResult.content = NotRun
  /\ mResult' = [mResult EXCEPT
       !.content = contentMatchEnvironment(mUrl, mEnvironments, mStorageOk)]
  /\ UNCHANGED <<mUrl, mEnvironments, mStorageOk>>

MatchBackground ==
  /\ mResult.background = NotRun
  /\ mResult' = [mResult EXCEPT
       !.background = backgroundMatchEnvironment(mUrl, mEnvironments, mStorageOk)]
  /\ UNCHANGED <<mUrl, mEnvironments, mStorageOk>>

MatchNext ==
  \/ MatchContent /\ UNCHANGED <<cipherVars, wrapVars, appVars, storeVars, panelVars, shapeVars, concVars, modalVars, writerVars>>
  \/ MatchBackground /\ UNCHANGED <<cipherVars, wrapVars, appVars, storeVars, panelVars, shapeVars, concVars, modalVars, writerVars>>

SpecMatch == MatchInit /\ [][MatchNext]_vars

(***************************************************************************)
(* Claims on the matcher                                                   *)
(***************************************************************************)
Scripts == {"content", "background"}
HasHttpScheme(u) == URL(u).ok /\ URL(u).protocol \in {"http:", "https:"}

\* The two rules, said of one environment on its own; c is the candidate
\* as the matcher compares it.
NormalizedOrAsIs(u) == LET url == URL(u) IN IF url.ok THEN Normalized(url) ELSE u
ComparableLoginUrl(env) ==
  IF env.loginUrl = "" THEN [ok |-> FALSE, url |-> ""]
  ELSE LET envUrl == URL(env.loginUrl)
       IN [ok |-> envUrl.ok, url |-> Normalized(envUrl)]
MatchesExactly(c, env) ==
  LET login == ComparableLoginUrl(env) IN login.ok /\ c = login.url
MatchesWildcard(c, env) ==
  LET login == ComparableLoginUrl(env) IN
  /\ login.ok
  /\ endsWith(login.url, "/*")
  /\ startsWith(c, SubSeq(login.url, 1, Len(login.url) - 2))
Matching(u, environments) ==
  LET c == NormalizedOrAsIs(u) IN
  {i \in 1..Len(environments) :
     MatchesExactly(c, environments[i]) \/ MatchesWildcard(c, environments[i])}

\* C3: for every list of environments, the matcher called with an empty
\* candidate, or with one whose scheme is not http or https, returns
\* not-found, also when an environment's loginUrl equals the candidate.
C3_NonHttpNotFound ==
  \A script \in Scripts :
    (mResult[script] # NotRun /\ (mUrl = "" \/ ~HasHttpScheme(mUrl)))
      => mResult[script] = NoEnv

\* C10: the matcher returns the earliest environment, in stored order, that
\* matches by the exact or the wildcard rule, and not-found if none does:
\* of two environments with the same normalized loginUrl the earlier, and an
\* earlier wildcard match rather than a later exact one.
C10_FirstMatchWins ==
  (mResult # [content |-> NotRun, background |-> NotRun] /\ mStorageOk) =>
    LET hits == Matching(mUrl, mEnvironments)
        first == IF hits = {} THEN NoEnv
                 ELSE mEnvironments[CHOOSE i \in hits : \A j \in hits : i <= j]
    IN \A script \in Scripts :
         mResult[script] # NotRun => mResult[script] = first
\* an earlier wildcard match and a later exact match: the earlier is returned
C10_Witness ==
  /\ mResult.content # NotRun
  /\ mResult.background # NotRun
  /\ mStorageOk
  /\ LET c == NormalizedOrAsIs(mUrl) IN
     \E i, j \in 1..Len(mEnvironments) :
       /\ i < j
       /\ MatchesWildcard(c, mEnvironments[i])
       /\ ~MatchesExactly(c, mEnvironments[i])
       /\ MatchesExactly(c, mEnvironments[j])
       /\ mResult.content = mEnvironments[i]
       /\ mResult.background = mEnvironments[i]
\* two environments with the same normalized loginUrl: the earlier is returned
C10_WitnessCollision ==
  /\ mResult.content # NotRun
  /\ mStorageOk
  /\ LET c == NormalizedOrAsIs(mUrl) IN
     \E i, j \in 1..Len(mEnvironments) :
       /\ i < j
       /\ mEnvironments[i].loginUrl # mEnvironments[j].loginUrl
       /\ MatchesExactly(c, mEnvironments[i])
       /\ MatchesExactly(c, mEnvironments[j])
       /\ mResult.content = mEnvironments[i]

\* Two URLs new URL parses, with the same scheme (http or https) and host.
SameOrigin(u, v) ==
  LET a == URL(u)
      b == URL(v)
  IN /\ a.ok /\ b.ok
     /\ a.protocol \in {"http:", "https:"}
     /\ a.protocol = b.protocol
     /\ a.host = b.host
\* the same path, or one of them with a "/" added at its end
UpToTrailingSlash(p, q) == p = q \/ p = q \o "/" \/ q = p \o "/"
\* the same, where the path the "/" is added to does not end in "/" itself
UpToOneTrailingSlash(p, q) ==
  \/ p = q
  \/ p = q \o "/" /\ ~endsWith(q, "/")
  \/ q = p \o "/" /\ ~endsWith(p, "/")
\* The matcher returned environment number i, or one before it.
ReturnedUpTo(script, i) ==
  \E j \in 1..i : mResult[script] = mEnvironments[j]

\* C11: for every candidate and loginUrl that are parseable http(s) URLs
\* with the same scheme, host and path up to a single trailing "/", whatever
\* query or fragment either has, the environment matches (it is returned,
\* unless an earlier environment is).
C11_ExactUpToSlash ==
  \A script \in Scripts :
    (mResult[script] # NotRun /\ mStorageOk) =>
      \A i \in 1..Len(mEnvironments) :
        (/\ SameOrigin(mUrl, mEnvironments[i].loginUrl)
         /\ UpToTrailingSlash(URL(mUrl).pathname,
                              URL(mEnvironments[i].loginUrl).pathname))
          => ReturnedUpTo(script, i)
\* C11 as amended: the same, for paths that are equal or differ by one "/"
\* added to a path that does not already end in "/".
C11_ExactUpToOneSlash ==
  \A script \in Scripts :
    (mResult[script] # NotRun /\ mStorageOk) =>
      \A i \in 1..Len(mEnvironments) :
        (/\ SameOrigin(mUrl, mEnvironments[i].loginUrl)
         /\ UpToOneTrailingSlash(URL(mUrl).pathname,
                                 URL(mEnvironments[i].loginUrl).pathname))
          => ReturnedUpTo(script, i)
\* the candidate has a trailing slash, a query and a fragment the loginUrl
\* has not, and the environment is returned
C11_Witness ==
  /\ mStorageOk
  /\ \E i \in 1..Len(mEnvironments) :
       /\ SameOrigin(mUrl, mEnvironments[i].loginUrl)
       /\ URL(mUrl).pathname = URL(mEnvironments[i].loginUrl).pathname \o "/"
       /\ FirstOf(mUrl, {"?"}, 1) <= Len(mUrl)
       /\ FirstOf(mEnvironments[i].loginUrl, {"?"}, 1)
            > Len(mEnvironments[i].loginUrl)
       /\ mResult.content = mEnvironments[i]
       /\ mResult.background = mEnvironments[i]

\* The prefix of a wildcard loginUrl: the normalized loginUrl less its "/*".
\* ok is FALSE for a loginUrl that is no wildcard.
WildcardPrefix(env) ==
  LET login == ComparableLoginUrl(env) IN
  [ok |-> login.ok /\ endsWith(login.url, "/*"),
   prefix |-> SubSeq(login.url, 1, Len(login.url) - 2)]

\* C12: an environment whose normalized loginUrl ends in "/*" matches a
\* candidate exactly when the normalized candidate starts with the loginUrl
\* less these two characters, as plain strings: it is returned (unless an
\* earlier environment is) if the candidate starts so, and only then.
C12_WildcardIsPrefix ==
  \A script \in Scripts :
    (mResult[script] # NotRun /\ mStorageOk) =>
      LET c == NormalizedOrAsIs(mUrl) IN
      \A i \in 1..Len(mEnvironments) :
        LET wildcard == WildcardPrefix(mEnvironments[i]) IN
        wildcard.ok =>
          /\ startsWith(c, wildcard.prefix) => ReturnedUpTo(script, i)
          /\ mResult[script] = mEnvironments[i] => startsWith(c, wildcard.prefix)
\* /sso/* is returned for /ssoextra, which only a plain prefix match gives
C12_Witness ==
  /\ mStorageOk
  /\ \E i \in 1..Len(mEnvironments) :
       LET wildcard == WildcardPrefix(mEnvironments[i]) IN
       /\ wildcard.ok
       /\ startsWith(NormalizedOrAsIs(mUrl), wildcard.prefix)
       /\ ~startsWith(NormalizedOrAsIs(mUrl), wildcard.prefix \o "/")
       /\ mResult.content = mEnvironments[i]
       /\ mResult.background = mEnvironments[i]
\* the same loginUrl and a candidate on another host: not-found
C12_WitnessOtherHost ==
  /\ mStorageOk
  /\ mUrl = "https://b.com/sso/step2"
  /\ Len(mEnvironments) = 1
  /\ mEnvironments[1].loginUrl = "https://a.com/sso/*"
  /\ mResult.content = NoEnv

\* C13: the matcher returns an environment only if the exact rule or the
\* wildcard rule holds for it: there is no contains match, so a bare origin
\* without "/*" never matches a deeper page of that origin.
C13_NoContainsMatch ==
  \A script \in Scripts :
    mResult[script] \notin {NotRun, NoEnv} =>
      LET c == NormalizedOrAsIs(mUrl) IN
      \E i \in 1..Len(mEnvironments) :
        /\ mResult[script] = mEnvironments[i]
        /\ MatchesExactly(c, mEnvironments[i]) \/ MatchesWildcard(c, mEnvironments[i])
\* loginUrl https://a.com and the page https://a.com/dashboard: not-found
C13_Witness ==
  /\ mStorageOk
  /\ mUrl = "https://a.com/dashboard"
  /\ Len(mEnvironments) >= 1
  /\ \A i \in 1..Len(mEnvironments) : mEnvironments[i].loginUrl = "https://a.com"
  /\ mResult.content = NoEnv
  /\ mResult.background = NoEnv

\* The environments whose loginUrl is there and parses.
RECURSIVE Usable(_)
Usable(environments) ==
  IF environments = <<>> THEN <<>>
  ELSE IF ComparableLoginUrl(Head(environments)).ok
       THEN <<Head(environments)>> \o Usable(Tail(environments))
       ELSE Usable(Tail(environments))

\* C14: an environment whose loginUrl is missing or fails to parse is skipped
\* and the lookup goes on: the matcher returns what it returns for the list
\* without these environments, a later environment included; it never throws.
C14_UnusableSkipped ==
  /\ (mResult.content # NotRun =>
        mResult.content
          = contentMatchEnvironment(mUrl, Usable(mEnvironments), mStorageOk))
  /\ (mResult.background # NotRun =>
        mResult.background
          = backgroundMatchEnvironment(mUrl, Usable(mEnvironments), mStorageOk))
\* a loginUrl that is missing or fails to parse, and a later one is returned
C14_Witness ==
  /\ mStorageOk
  /\ \E i, j \in 1..Len(mEnvironments) :
       /\ i < j
       /\ ~ComparableLoginUrl(mEnvironments[i]).ok
       /\ mResult.content = mEnvironments[j]
       /\ mResult.background = mEnvironments[j]

\* C15: the candidate and every loginUrl are normalized alike; on either
\* side a URL that fails to parse is kept as it is and compared, so that a
\* candidate u matches an environment whose loginUrl is the same string u.
C15_SameStringMatches ==
  \A script \in Scripts :
    (mResult[script] # NotRun /\ mStorageOk /\ mUrl # "") =>
      \A i \in 1..Len(mEnvironments) :
        mEnvironments[i].loginUrl = mUrl => ReturnedUpTo(script, i)
\* C15 as amended: a candidate and a loginUrl that both parse are normalized
\* alike (equal normalized forms match); a candidate that fails to parse is
\* compared as it is, an environment whose loginUrl fails to parse is skipped
\* and never returned, also when the candidate is the same string.
C15_ParseableNormalizedAlike ==
  \A script \in Scripts :
    (mResult[script] # NotRun /\ mStorageOk /\ mUrl # "") =>
      \A i \in 1..Len(mEnvironments) :
        LET login == ComparableLoginUrl(mEnvironments[i]) IN
        /\ (login.ok /\ URL(mUrl).ok /\ Normalized(URL(mUrl)) = login.url)
             => ReturnedUpTo(script, i)
        /\ ~login.ok => mResult[script] # mEnvironments[i]
\* the candidate and the only loginUrl are the same string, which does not
\* parse: not-found
C15_Witness ==
  /\ mStorageOk
  /\ ~URL(mUrl).ok
  /\ mUrl # ""
  /\ Len(mEnvironments) = 1
  /\ mEnvironments[1].loginUrl = mUrl
  /\ mResult.content = NoEnv
  /\ mResult.background = NoEnv

\* C26: whenever a matcher returns an environment for a candidate that
\* new URL parses with scheme http or https, the candidate has the scheme
\* and host of that environment's loginUrl, wildcard loginUrls included.
C26_HostConfined ==
  \A script \in Scripts :
    (mResult[script] \notin {NotRun, NoEnv} /\ HasHttpScheme(mUrl)) =>
      SameOrigin(mUrl, mResult[script].loginUrl)

\* C27: the matcher of the content script and the matcher of the background
\* script are equivalent: called with the same candidate URL on the same
\* stored environments, both return the same environment or both return
\* not-found.
C27_MatchersAgree ==
  (mResult.content # NotRun /\ mResult.background # NotRun) =>
    mResult.content = mResult.background
\* both ran on a candidate that normalization changes, and both returned
\* the same environment
C27_Witness ==
  /\ mStorageOk
  /\ mUrl # NormalizedOrAsIs(mUrl)
  /\ mResult.content \notin {NotRun, NoEnv}
  /\ mResult.background = mResult.content

(***************************************************************************)
(* The popup and the floating panel on the stored accounts.  An account    *)
(* is stored as its id and its password field; `from` records where the    *)
(* value of the field comes from ("encrypted": encrypt returned it) and    *)
(* `key` the master password it was encrypted under, Null for none.        *)
(* window.cryptoUtils is loaded and an environment is selected.  A login   *)
(* ends the run: the popup closes, the page's form is submitted.           *)
(***************************************************************************)
\* accounts.findIndex(a => a.id === accountId), from 1; 0 for -1
FindIndex(accounts, accountId) ==
  LET hits == {k \in 1..Len(accounts) : accounts[k].id = accountId}
  IN IF hits = {} THEN 0 ELSE CHOOSE k \in hits : \A j \in hits : k <= j

RECURSIVE Filter(_, _)
\* accounts.filter(a => a.id !== accountId)
Filter(accounts, accountId) ==
  IF accounts = <<>> THEN <<>>
  ELSE IF Head(accounts).id = accountId THEN Filter(Tail(accounts), accountId)
  ELSE <<Head(accounts)>> \o Filter(Tail(accounts), accountId)

\* What a handler stores after encryptPassword(password) returned enc.
StoredPassword(password, from, enc, master, storageOk) ==
  IF enc.calls /\ enc.value # password
  THEN [password |-> enc.value, from |-> "encrypted",
        key |-> getMasterPassword(master, storageOk)]
  ELSE [password |-> enc.value, from |-> from, key |-> Null]

AppInit ==
  /\ aMaster \in {Null} \cup AppSecrets
  /\ aAccounts = <<>>
  /\ aNow = 1
  /\ aForm = NoForm
  /\ aFill = NoFill
  /\ CipherIdle
  /\ WrapIdle
  /\ MatchIdle
  /\ StoreIdle
  /\ PanelIdle
  /\ ShapeIdle
  /\ ConcIdle
  /\ ModalIdle
  /\ WritersIdle

AppSetMasterPassword ==
  /\ aFill = NoFill
  /\ \E password \in AppSecrets \cup {<<>>}, storageOk \in BOOLEAN :
       aMaster' = setMasterPassword(aMaster, password, storageOk).stored
  /\ UNCHANGED <<aAccounts, aNow, aForm, aFill>>

\* openAccountModal(): add mode
PopupOpenAccountModalAdd ==
  /\ aFill = NoFill
  /\ aForm' = [NoForm EXCEPT !.open = TRUE]
  /\ UNCHANGED <<aMaster, aAccounts, aNow, aFill>>

\* openAccountModal(accountId): edit mode, with the callback that loads the
\* account and decrypts its password into the form
PopupOpenAccountModalEdit ==
  /\ aFill = NoFill
  /\ \E k \in 1..Len(aAccounts), storageOk \in BOOLEAN, subtle \in BOOLEAN :
       LET accountId == aAccounts[k].id
           account == aAccounts[FindIndex(aAccounts, accountId)]
           dec == decryptPassword(account.password, Null, aMaster, storageOk, subtle)
       IN aForm' = [open |-> TRUE, currentAccountId |-> accountId,
                    password |-> IF account.password = <<>> THEN <<>>
                                 ELSE dec.value,
                    from |-> IF account.password # <<>> /\ dec.calls
                                /\ dec.value # account.password
                             THEN "decrypted" ELSE "stored"]
  /\ UNCHANGED <<aMaster, aAccounts, aNow, aFill>>

\* the user types a password into the open form
PopupTypePassword ==
  /\ aFill = NoFill
  /\ aForm.open
  /\ \E password \in AppPasswords :
       aForm' = [aForm EXCEPT !.password = password, !.from = "typed"]
  /\ UNCHANGED <<aMaster, aAccounts, aNow, aFill>>

\* handleAccountSubmit(): the form is valid (the password is not empty)
PopupHandleAccountSubmit ==
  /\ aFill = NoFill
  /\ aForm.open
  /\ aForm.password # <<>>
  /\ Len(aForm.password) <= MaxPasswordLen
  /\ \E storageOk \in BOOLEAN, subtle \in BOOLEAN, now \in aNow..MaxNow :
       LET enc == encryptPassword(aForm.password, Null, aMaster, storageOk,
                                  AppSeed, subtle)
           field == StoredPassword(aForm.password, aForm.from, enc, aMaster,
                                   storageOk)
           index == FindIndex(aAccounts, aForm.currentAccountId)
       IN
       /\ aNow' = now
       /\ IF aForm.currentAccountId # 0
          THEN IF index # 0
               THEN /\ aAccounts' = [aAccounts EXCEPT
                         ![index] = [id |-> aAccounts[index].id] @@ field]
                    /\ aForm' = NoForm
               ELSE UNCHANGED <<aAccounts, aForm>>
          ELSE /\ Len(aAccounts) < MaxAccounts
               /\ aAccounts' = Append(aAccounts, [id |-> now] @@ field)
               /\ aForm' = NoForm
  /\ UNCHANGED <<aMaster, aFill>>

\* handleAddAccountSubmit() of the floating panel, its form filled in
PanelHandleAddAccountSubmit ==
  /\ aFill = NoFill
  /\ Len(aAccounts) < MaxAccounts
  /\ \E password \in AppPasswords, storageOk \in BOOLEAN, subtle \in BOOLEAN,
        now \in aNow..MaxNow :
       LET enc == encryptPassword(password, Null, aMaster, storageOk, AppSeed,
                                  subtle)
           field == StoredPassword(password, "typed", enc, aMaster, storageOk)
       IN /\ aNow' = now
          /\ aAccounts' = Append(aAccounts, [id |-> now] @@ field)
  /\ UNCHANGED <<aMaster, aForm, aFill>>

\* handleDeleteAccount(accountId), confirmed
PopupHandleDeleteAccount ==
  /\ aFill = NoFill
  /\ \E k \in 1..Len(aAccounts) :
       aAccounts' = Filter(aAccounts, aAccounts[k].id)
  /\ UNCHANGED <<aMaster, aNow, aForm, aFill>>

\* handleLogin(accountId) of the popup: the page's form gets the password
\* of the copy of the account executeScript passes to fillLoginForm
PopupHandleLogin ==
  /\ aFill = NoFill
  /\ \E k \in 1..Len(aAccounts), storageOk \in BOOLEAN, subtle \in BOOLEAN :
       LET account == aAccounts[FindIndex(aAccounts, aAccounts[k].id)]
           dec == decryptPassword(account.password, Null, aMaster, storageOk, subtle)
       IN aFill' = [by |-> "popup", stored |-> account.password,
                    key |-> account.key,
                    value |-> IF account.password = <<>> THEN <<>> ELSE dec.value,
                    master |-> aMaster, storageOk |-> storageOk,
                    subtle |-> subtle]
  /\ UNCHANGED <<aMaster, aAccounts, aNow, aForm>>

\* handleLogin(accountId) of the floating panel: fillLoginForm gets the
\* account as stored
PanelHandleLogin ==
  /\ aFill = NoFill
  /\ \E k \in 1..Len(aAccounts) :
       LET account == aAccounts[FindIndex(aAccounts, aAccounts[k].id)]
       IN aFill' = [by |-> "panel", stored |-> account.password,
                    key |-> account.key, value |-> account.password,
                    master |-> aMaster, storageOk |-> TRUE, subtle |-> TRUE]
  /\ UNCHANGED <<aMaster, aAccounts, aNow, aForm>>

AppNext ==
  \/ AppSetMasterPassword /\ UNCHANGED <<cipherVars, wrapVars, matchVars, storeVars, panelVars, shapeVars, concVars, modalVars, writerVars>>
  \/ PopupOpenAccountModalAdd /\ UNCHANGED <<cipherVars, wrapVars, matchVars, storeVars, panelVars, shapeVars, concVars, modalVars, writerVars>>
  \/ PopupOpenAccountModalEdit /\ UNCHANGED <<cipherVars, wrapVars, matchVars, storeVars, panelVars, shapeVars, concVars, modalVars, writerVars>>
  \/ PopupTypePassword /\ UNCHANGED <<cipherVars, wrapVars, matchVars, storeVars, panelVars, shapeVars, concVars, modalVars, writerVars>>
  \/ PopupHandleAccountSubmit /\ UNCHANGED <<cipherVars, wrapVars, matchVars, storeVars, panelVars, shapeVars, concVars, modalVars, writerVars>>
  \/ PanelHandleAddAccountSubmit /\ UNCHANGED <<cipherVars, wrapVars, matchVars, storeVars, panelVars, shapeVars, concVars, modalVars, writerVars>>
  \/ PopupHandleDeleteAccount /\ UNCHANGED <<cipherVars, wrapVars, matchVars, storeVars, panelVars, shapeVars, concVars, modalVars, writerVars>>
  \/ PopupHandleLogin /\ UNCHANGED <<cipherVars, wrapVars, matchVars, storeVars, panelVars, shapeVars, concVars, modalVars, writerVars>>
  \/ PanelHandleLogin /\ UNCHANGED <<cipherVars, wrapVars, matchVars, storeVars, panelVars, shapeVars, concVars, modalVars, writerVars>>

SpecApp == AppInit /\ [][AppNext]_vars

(***************************************************************************)
(* Claims on the popup and the panel                                       *)
(***************************************************************************)
\* C2: in both login flows the password written into the page's form is
\* decryptPassword of the stored password; a stored blob is not filled in
\* as it is while the master password it was encrypted under is configured
\* (and is read, and crypto.subtle works).
C2_LoginFillsDecrypted ==
  aFill # NoFill =>
    /\ aFill.value = decryptPassword(aFill.stored, Null, aFill.master,
                                     aFill.storageOk, aFill.subtle).value
    /\ (aFill.key # Null /\ aFill.key = aFill.master
          /\ aFill.storageOk /\ aFill.subtle)
         => aFill.value # aFill.stored

\* C9: after any sequence of add, edit-load, edit-save and login, no stored
\* account's password field holds a value decryptPassword decrypted.
C9_DecryptedNeverStored ==
  \A k \in 1..Len(aAccounts) : aAccounts[k].from # "decrypted"

(***************************************************************************)
(* The stored environments and accounts under the popup's and the panel's  *)
(* add and delete handlers. An account is its id and its envId here, an    *)
(* environment its id: the other fields do not bear on either. An id is    *)
(* the clock value Date.now().toString() was made from, decimal notation   *)
(* being one-to-one. The popup and the panel are different processes: the  *)
(* panel's handlers run while handleDeleteEnv of the popup waits for its   *)
(* confirm dialog or for chrome.storage.                                   *)
(***************************************************************************)
StoreInit ==
  /\ sEnvironments = <<>>
  /\ sAccounts = <<>>
  /\ sNow = 1
  /\ sPopupEnv = 0
  /\ sPanelEnv = 0
  /\ sDelete = NoDelete
  /\ sDone = NoDone
  /\ CipherIdle
  /\ WrapIdle
  /\ MatchIdle
  /\ AppIdle
  /\ PanelIdle
  /\ ShapeIdle
  /\ ConcIdle
  /\ ModalIdle
  /\ WritersIdle

EnvIds(environments) == {environments[k].id : k \in 1..Len(environments)}

RECURSIVE FilterEnvId(_, _)
\* accounts.filter(acc => acc.envId !== envId)
FilterEnvId(accounts, envId) ==
  IF accounts = <<>> THEN <<>>
  ELSE IF Head(accounts).envId = envId
       THEN FilterEnvId(Tail(accounts), envId)
       ELSE <<Head(accounts)>> \o FilterEnvId(Tail(accounts), envId)

\* array.unshift(item) in the place of array.push(item)
unshift(array, item) == <<item>> \o array
\* array.push(item)
push(array, item) == Append(array, item)

\* handleEnvSubmit of the popup, add mode: the new environment's id is the
\* clock, and it becomes the popup's current environment
StoreHandleEnvSubmit ==
  /\ sDelete = NoDelete
  /\ Len(sEnvironments) < MaxStoredEnvs
  /\ \E now \in sNow..MaxNow :
       /\ sNow' = now
       /\ sEnvironments' =
            push(sEnvironments, [id |-> now, name |-> "submitted"])
       /\ sPopupEnv' = now
  /\ sDone' = NoDone
  /\ UNCHANGED <<sAccounts, sPanelEnv, sDelete>>

\* handleEnvSubmit of the popup, edit mode (currentEnvIdForEdit is set): the
\* first environment of that id takes the form's fields and keeps its id
StoreHandleEnvSubmitEdit ==
  /\ sDelete = NoDelete
  /\ \E currentEnvIdForEdit \in EnvIds(sEnvironments) :
       LET index == FindIndex(sEnvironments, currentEnvIdForEdit)
       IN /\ sEnvironments[index].name # "edited"
          /\ sEnvironments' =
               [sEnvironments EXCEPT ![index] = [@ EXCEPT !.name = "edited"]]
  /\ sDone' = NoDone
  /\ UNCHANGED <<sAccounts, sNow, sPopupEnv, sPanelEnv, sDelete>>

\* switchEnvironment(envId) of the popup, from its list of environments
StorePopupSwitchEnvironment ==
  /\ sDelete = NoDelete
  /\ \E envId \in EnvIds(sEnvironments) : sPopupEnv' = envId
  /\ sDone' = NoDone
  /\ UNCHANGED <<sEnvironments, sAccounts, sNow, sPanelEnv, sDelete>>

\* switchEnvironment(envId) of the panel, from its select or from a match
StorePanelSwitchEnvironment ==
  /\ \E envId \in EnvIds(sEnvironments) : sPanelEnv' = envId
  /\ sDone' = NoDone
  /\ UNCHANGED <<sEnvironments, sAccounts, sNow, sPopupEnv, sDelete>>

\* handleAccountSubmit of the popup, add mode
StorePopupHandleAccountSubmit ==
  /\ sDelete = NoDelete
  /\ sPopupEnv # 0
  /\ Len(sAccounts) < MaxAccounts
  /\ \E now \in sNow..MaxNow :
       /\ sNow' = now
       /\ sAccounts' = Append(sAccounts, [id |-> now, envId |-> sPopupEnv])
  /\ sDone' = NoDone
  /\ UNCHANGED <<sEnvironments, sPopupEnv, sPanelEnv, sDelete>>

\* handleAddAccountSubmit of the panel
StorePanelHandleAddAccountSubmit ==
  /\ sPanelEnv # 0
  /\ Len(sAccounts) < MaxAccounts
  /\ \E now \in sNow..MaxNow :
       /\ sNow' = now
       /\ sAccounts' = Append(sAccounts, [id |-> now, envId |-> sPanelEnv])
  /\ sDone' = NoDone
  /\ UNCHANGED <<sEnvironments, sPopupEnv, sPanelEnv, sDelete>>

\* handleDeleteAccount(accountId) of the popup, confirmed
StorePopupHandleDeleteAccount ==
  /\ sDelete = NoDelete
  /\ \E k \in 1..Len(sAccounts) :
       sAccounts' = Filter(sAccounts, sAccounts[k].id)
  /\ sDone' = NoDone
  /\ UNCHANGED <<sEnvironments, sNow, sPopupEnv, sPanelEnv, sDelete>>

\* handleDeleteEnv(envId), up to its confirm dialog: the accounts are read
HandleDeleteEnvRead ==
  /\ sDelete = NoDelete
  /\ \E envId \in EnvIds(sEnvironments) :
       sDelete' = [pc |-> "confirm", envId |-> envId, accounts |-> sAccounts]
  /\ sDone' = NoDone
  /\ UNCHANGED <<sEnvironments, sAccounts, sNow, sPopupEnv, sPanelEnv>>

\* handleDeleteEnv(envId): the user declines, the handler returns
HandleDeleteEnvDecline ==
  /\ sDelete.pc = "confirm"
  /\ sDelete' = NoDelete
  /\ sDone' = [envId |-> sDelete.envId, confirmed |-> FALSE,
               environments |-> sEnvironments, accounts |-> sAccounts]
  /\ UNCHANGED <<sEnvironments, sAccounts, sNow, sPopupEnv, sPanelEnv>>

\* handleDeleteEnv(envId): the user confirms; if the accounts read had any
\* of this environment, the others of those read are written
HandleDeleteEnvConfirm ==
  /\ sDelete.pc = "confirm"
  /\ sDelete' = [sDelete EXCEPT !.pc = "environments"]
  /\ sAccounts' =
       IF FilterEnvId(sDelete.accounts, sDelete.envId) # sDelete.accounts
       THEN FilterEnvId(sDelete.accounts, sDelete.envId)
       ELSE sAccounts
  /\ sDone' = NoDone
  /\ UNCHANGED <<sEnvironments, sNow, sPopupEnv, sPanelEnv>>

\* handleDeleteEnv(envId): the environments are read, filtered and written,
\* and the popup's selection is cleared if it was this environment
HandleDeleteEnvFinish ==
  /\ sDelete.pc = "environments"
  /\ sEnvironments' = Filter(sEnvironments, sDelete.envId)
  /\ sPopupEnv' = IF sPopupEnv = sDelete.envId THEN 0 ELSE sPopupEnv
  /\ sDelete' = NoDelete
  /\ sDone' = [envId |-> sDelete.envId, confirmed |-> TRUE,
               environments |-> sEnvironments, accounts |-> sAccounts]
  /\ UNCHANGED <<sAccounts, sNow, sPanelEnv>>

StoreNext ==
  \/ StoreHandleEnvSubmit /\ UNCHANGED <<cipherVars, wrapVars, matchVars, appVars, panelVars, shapeVars, concVars, modalVars, writerVars>>
  \/ StoreHandleEnvSubmitEdit /\ UNCHANGED <<cipherVars, wrapVars, matchVars, appVars, panelVars, shapeVars, concVars, modalVars, writerVars>>
  \/ StorePopupSwitchEnvironment /\ UNCHANGED <<cipherVars, wrapVars, matchVars, appVars, panelVars, shapeVars, concVars, modalVars, writerVars>>
  \/ StorePanelSwitchEnvironment /\ UNCHANGED <<cipherVars, wrapVars, matchVars, appVars, panelVars, shapeVars, concVars, modalVars, writerVars>>
  \/ StorePopupHandleAccountSubmit /\ UNCHANGED <<cipherVars, wrapVars, matchVars, appVars, panelVars, shapeVars, concVars, modalVars, writerVars>>
  \/ StorePanelHandleAddAccountSubmit /\ UNCHANGED <<cipherVars, wrapVars, matchVars, appVars, panelVars, shapeVars, concVars, modalVars, writerVars>>
  \/ StorePopupHandleDeleteAccount /\ UNCHANGED <<cipherVars, wrapVars, matchVars, appVars, panelVars, shapeVars, concVars, modalVars, writerVars>>
  \/ HandleDeleteEnvRead /\ UNCHANGED <<cipherVars, wrapVars, matchVars, appVars, panelVars, shapeVars, concVars, modalVars, writerVars>>
  \/ HandleDeleteEnvDecline /\ UNCHANGED <<cipherVars, wrapVars, matchVars, appVars, panelVars, shapeVars, concVars, modalVars, writerVars>>
  \/ HandleDeleteEnvConfirm /\ UNCHANGED <<cipherVars, wrapVars, matchVars, appVars, panelVars, shapeVars, concVars, modalVars, writerVars>>
  \/ HandleDeleteEnvFinish /\ UNCHANGED <<cipherVars, wrapVars, matchVars, appVars, panelVars, shapeVars, concVars, modalVars, writerVars>>

SpecStore == StoreInit /\ [][StoreNext]_vars

\* The handlers that write the stored environments, on their own: the
\* account handlers leave the environments alone.
EnvsNext ==
  \/ StoreHandleEnvSubmit /\ UNCHANGED <<cipherVars, wrapVars, matchVars, appVars, panelVars, shapeVars, concVars, modalVars, writerVars>>
  \/ StoreHandleEnvSubmitEdit /\ UNCHANGED <<cipherVars, wrapVars, matchVars, appVars, panelVars, shapeVars, concVars, modalVars, writerVars>>
  \/ StorePopupSwitchEnvironment /\ UNCHANGED <<cipherVars, wrapVars, matchVars, appVars, panelVars, shapeVars, concVars, modalVars, writerVars>>
  \/ HandleDeleteEnvRead /\ UNCHANGED <<cipherVars, wrapVars, matchVars, appVars, panelVars, shapeVars, concVars, modalVars, writerVars>>
  \/ HandleDeleteEnvDecline /\ UNCHANGED <<cipherVars, wrapVars, matchVars, appVars, panelVars, shapeVars, concVars, modalVars, writerVars>>
  \/ HandleDeleteEnvConfirm /\ UNCHANGED <<cipherVars, wrapVars, matchVars, appVars, panelVars, shapeVars, concVars, modalVars, writerVars>>
  \/ HandleDeleteEnvFinish /\ UNCHANGED <<cipherVars, wrapVars, matchVars, appVars, panelVars, shapeVars, concVars, modalVars, writerVars>>

SpecEnvs == StoreInit /\ [][EnvsNext]_vars

(***************************************************************************)
(* Claims on the stored environments and accounts                          *)
(***************************************************************************)
IdsUnique(records) ==
  \A j, k \in 1..Len(records) : records[j].id = records[k].id => j = k

\* C16: after any sequence of add-environment and add-account operations
\* of the popup and the panel, two adds at one clock value included, no two
\* stored environments share an id and no two stored accounts share an id.
C16_IdsUnique == IdsUnique(sEnvironments) /\ IdsUnique(sAccounts)

\* C17: right after a confirmed handleDeleteEnv(envId) has finished,
\* storage holds neither the environment envId nor an account whose envId
\* is envId; right after a declined one, environments and accounts are what
\* they were.
C17_CascadeDelete ==
  sDone # NoDone =>
    IF sDone.confirmed
    THEN /\ sDone.envId \notin EnvIds(sEnvironments)
         /\ \A k \in 1..Len(sAccounts) : sAccounts[k].envId # sDone.envId
    ELSE /\ sEnvironments = sDone.environments
         /\ sAccounts = sDone.accounts

RECURSIVE IsSubsequence(_, _)
\* a is b with some of its elements taken out, the others in b's order
IsSubsequence(a, b) ==
  IF a = <<>> THEN TRUE
  ELSE IF b = <<>> THEN FALSE
  ELSE IF Head(a) = Head(b) /\ IsSubsequence(Tail(a), Tail(b)) THEN TRUE
  ELSE IsSubsequence(a, Tail(b))

\* What one step may do to the stored environments: put a new one after all
\* the others, change one where it stands (its id kept), or take some out.
OrderKept(old, new) ==
  \/ /\ Len(new) = Len(old) + 1
     /\ SubSeq(new, 1, Len(old)) = old
  \/ /\ Len(new) = Len(old)
     /\ \A k \in 1..Len(old) : new[k].id = old[k].id
     /\ Cardinality({k \in 1..Len(old) : new[k] # old[k]}) <= 1
  \/ /\ Len(new) < Len(old)
     /\ IsSubsequence(new, old)

\* C24: registration order is stable: adding an environment puts it after
\* all the existing ones, and editing or deleting an environment never
\* changes the order of the others among themselves, so the stored order,
\* which is the matcher's precedence, is the order of creation.
C24_OrderStable == [][OrderKept(sEnvironments, sEnvironments')]_vars
\* The first of three environments has just been deleted: the second and
\* the third, the second of them edited before, are left in that order.
C24_Witness ==
  /\ sDone.confirmed
  /\ Len(sDone.environments) = 3
  /\ sEnvironments = <<sDone.environments[2], sDone.environments[3]>>
  /\ sDone.environments[2].name = "edited"
  /\ sDone.environments[3].name = "submitted"

(***************************************************************************)
(* The floating panel following the page's URL. The page stays on one      *)
(* origin; its URL changes through history.pushState/replaceState, through *)
(* a history traversal (popstate), or in a way that reaches neither        *)
(* listener and is left to the 1-second interval. The environments are     *)
(* those of PanelLoginUrls at first; the popup may store others.           *)
(***************************************************************************)
PanelEnvironments == Environments(PanelLoginUrls)

\* initFloatingPanel: the panel and its listeners exist only if the URL of
\* the page matched an environment when the content script started
PanelInit ==
  /\ pHref \in PanelUrls
  /\ LET matchedEnv == contentMatchEnvironment(pHref, PanelEnvironments, TRUE)
     IN /\ pCreated = (matchedEnv # NoEnv)
        /\ pShown = (matchedEnv # NoEnv)
        /\ pCurrentEnvId = matchedEnv.id
        /\ pLastCheckedUrl = IF matchedEnv # NoEnv THEN pHref ELSE ""
  /\ pTimers = 0
  /\ pPending = <<>>
  /\ pChanges = 0
  /\ pEnvironments = PanelEnvironments
  /\ CipherIdle
  /\ WrapIdle
  /\ MatchIdle
  /\ AppIdle
  /\ StoreIdle
  /\ ShapeIdle
  /\ ConcIdle
  /\ ModalIdle
  /\ WritersIdle

\* checkDomainMatch up to its await: what it leaves in lastCheckedUrl and
\* in the panel's display, and the URLs matchEnvironment is awaited for
checkDomainMatch(currentUrl, lastCheckedUrl, shown, pending) ==
  IF currentUrl = "" \/ ~startsWith(currentUrl, "http")
  THEN [lastCheckedUrl |-> currentUrl, shown |-> FALSE, pending |-> pending]
  ELSE IF currentUrl = lastCheckedUrl
  THEN [lastCheckedUrl |-> lastCheckedUrl, shown |-> shown,
        pending |-> pending]
  ELSE [lastCheckedUrl |-> currentUrl, shown |-> shown,
        pending |-> Append(pending, currentUrl)]

\* history.pushState or history.replaceState as setupUrlChangeListener
\* wraps them: the URL changes and a check is set for 100 ms later
PanelPushState ==
  /\ pChanges < MaxUrlChanges
  /\ \E u \in PanelUrls : pHref' = u
  /\ pTimers' = IF pCreated THEN pTimers + 1 ELSE pTimers
  /\ pChanges' = pChanges + 1
  /\ UNCHANGED <<pCreated, pLastCheckedUrl, pShown, pCurrentEnvId, pPending,
                 pEnvironments>>

\* The setTimeout of the wrapped pushState/replaceState fires
PanelTimeout ==
  /\ pTimers > 0
  /\ pTimers' = pTimers - 1
  /\ LET r == checkDomainMatch(pHref, pLastCheckedUrl, pShown, pPending)
     IN /\ pLastCheckedUrl' = r.lastCheckedUrl
        /\ pShown' = r.shown
        /\ pPending' = r.pending
  /\ UNCHANGED <<pHref, pCreated, pCurrentEnvId, pChanges, pEnvironments>>

\* A history traversal: the URL changes and the popstate listener runs
PanelPopState ==
  /\ pChanges < MaxUrlChanges
  /\ \E u \in PanelUrls \ {pHref} :
       /\ pHref' = u
       /\ LET r == checkDomainMatch(u, pLastCheckedUrl, pShown, pPending)
          IN IF pCreated
             THEN /\ pLastCheckedUrl' = r.lastCheckedUrl
                  /\ pShown' = r.shown
                  /\ pPending' = r.pending
             ELSE UNCHANGED <<pLastCheckedUrl, pShown, pPending>>
  /\ pChanges' = pChanges + 1
  /\ UNCHANGED <<pCreated, pCurrentEnvId, pTimers, pEnvironments>>

\* The URL changes and neither listener is reached
PanelOtherUrlChange ==
  /\ pChanges < MaxUrlChanges
  /\ \E u \in PanelUrls \ {pHref} : pHref' = u
  /\ pChanges' = pChanges + 1
  /\ UNCHANGED <<pCreated, pLastCheckedUrl, pShown, pCurrentEnvId, pTimers,
                 pPending, pEnvironments>>

\* The setInterval callback of setupUrlChangeListener finds the URL changed:
\* it stores the URL in lastCheckedUrl and then calls checkDomainMatch
PanelUrlCheckInterval ==
  /\ pCreated
  /\ pHref # pLastCheckedUrl
  /\ LET r == checkDomainMatch(pHref, pHref, pShown, pPending)
     IN /\ pLastCheckedUrl' = r.lastCheckedUrl
        /\ pShown' = r.shown
        /\ pPending' = r.pending
  /\ UNCHANGED <<pHref, pCreated, pCurrentEnvId, pTimers, pChanges,
                 pEnvironments>>

\* checkDomainMatch after its await: matchEnvironment has returned
PanelMatchReturns ==
  /\ pPending # <<>>
  /\ pPending' = Tail(pPending)
  /\ LET matchedEnv ==
           contentMatchEnvironment(Head(pPending), pEnvironments, TRUE)
     IN IF matchedEnv = NoEnv
        THEN pShown' = FALSE /\ UNCHANGED pCurrentEnvId
        ELSE pShown' = TRUE /\ pCurrentEnvId' = matchedEnv.id
  /\ UNCHANGED <<pHref, pCreated, pLastCheckedUrl, pTimers, pChanges,
                 pEnvironments>>

\* The popup writes other environments to chrome.storage.local: the panel's
\* storage.onChanged listener calls checkDomainMatch
PanelStorageChanged ==
  /\ \E urls \in PanelEnvLists \ {[k \in 1..Len(pEnvironments) |->
                                       pEnvironments[k].loginUrl]} :
       pEnvironments' = Environments(urls)
  /\ LET r == checkDomainMatch(pHref, pLastCheckedUrl, pShown, pPending)
     IN IF pCreated
        THEN /\ pLastCheckedUrl' = r.lastCheckedUrl
             /\ pShown' = r.shown
             /\ pPending' = r.pending
        ELSE UNCHANGED <<pLastCheckedUrl, pShown, pPending>>
  /\ UNCHANGED <<pHref, pCreated, pCurrentEnvId, pTimers, pChanges>>

PanelNext ==
  \/ PanelPushState /\ UNCHANGED <<cipherVars, wrapVars, matchVars, appVars, storeVars, shapeVars, concVars, modalVars, writerVars>>
  \/ PanelTimeout /\ UNCHANGED <<cipherVars, wrapVars, matchVars, appVars, storeVars, shapeVars, concVars, modalVars, writerVars>>
  \/ PanelPopState /\ UNCHANGED <<cipherVars, wrapVars, matchVars, appVars, storeVars, shapeVars, concVars, modalVars, writerVars>>
  \/ PanelOtherUrlChange /\ UNCHANGED <<cipherVars, wrapVars, matchVars, appVars, storeVars, shapeVars, concVars, modalVars, writerVars>>
  \/ PanelUrlCheckInterval /\ UNCHANGED <<cipherVars, wrapVars, matchVars, appVars, storeVars, shapeVars, concVars, modalVars, writerVars>>
  \/ PanelMatchReturns /\ UNCHANGED <<cipherVars, wrapVars, matchVars, appVars, storeVars, shapeVars, concVars, modalVars, writerVars>>
  \/ PanelStorageChanged /\ UNCHANGED <<cipherVars, wrapVars, matchVars, appVars, storeVars, shapeVars, concVars, modalVars, writerVars>>

SpecPanel == PanelInit /\ [][PanelNext]_vars

(***************************************************************************)
(* Claims on the panel following the URL                                   *)
(***************************************************************************)
\* Nothing is left to run: no timer is set, no matchEnvironment is awaited
\* and the interval finds the URL it has in lastCheckedUrl.
PanelQuiet ==
  pTimers = 0 /\ pPending = <<>> /\ pHref = pLastCheckedUrl

\* C18: after the URL has changed, under the panel's listeners or first
\* seen by the 1-second interval, the matcher is queried with the new URL
\* and the panel is updated from the result. Once nothing is left to run,
\* the panel that exists is therefore hidden on a URL that matches no
\* environment, and shown with the matched environment selected on a URL
\* that matches one: no change has been skipped at the lastCheckedUrl test.
C18_PanelFollowsUrl ==
  (pCreated /\ pChanges > 0 /\ PanelQuiet
     /\ pEnvironments = PanelEnvironments) =>
    LET matchedEnv == contentMatchEnvironment(pHref, PanelEnvironments, TRUE)
    IN IF matchedEnv = NoEnv THEN ~pShown
       ELSE pShown /\ pCurrentEnvId = matchedEnv.id

\* C25: when the stored environments have changed so that the URL of the
\* page, which has not changed, matches none of them any more, the panel is
\* hidden: once nothing is left to run it is not shown.
C25_HiddenWhenNoLongerMatching ==
  (pCreated /\ pChanges = 0 /\ PanelQuiet
     /\ contentMatchEnvironment(pHref, pEnvironments, TRUE) = NoEnv)
    => ~pShown

(***************************************************************************)
(* isBase64 on its own: one call with one value                            *)
(***************************************************************************)
ShapeInit ==
  /\ bValue \in ShapeValues
  /\ bResult = NotCalled
  /\ CipherIdle
  /\ WrapIdle
  /\ MatchIdle
  /\ AppIdle
  /\ StoreIdle
  /\ PanelIdle
  /\ ConcIdle
  /\ ModalIdle
  /\ WritersIdle

ShapeIsBase64 ==
  /\ bResult = NotCalled
  /\ LET res == isBase64Value(bValue)
     IN bResult' = [called |-> TRUE, ok |-> res.ok, value |-> res.value]
  /\ UNCHANGED bValue

ShapeNext ==
  \/ ShapeIsBase64 /\ UNCHANGED <<cipherVars, wrapVars, matchVars, appVars, storeVars, panelVars, concVars, modalVars, writerVars>>

SpecShape == ShapeInit /\ [][ShapeNext]_vars

(***************************************************************************)
(* Claims on isBase64                                                      *)
(***************************************************************************)
\* The base64 shape, said of a string on its own: only characters of the
\* alphabet and '=', the '=' at most two, all of them at the end.
HasBase64Shape(chars) ==
  LET pads == {i \in 1..Len(chars) : chars[i] = B64Pad}
  IN /\ \A i \in 1..Len(chars) : IsB64Char(chars[i]) \/ chars[i] = B64Pad
     /\ Cardinality(pads) <= 2
     /\ \A i \in pads : \A j \in i..Len(chars) : j \in pads

\* C20: isBase64 returns true exactly for the non-empty strings of base64
\* shape and false for every other value: the empty string, a string with
\* another character or with '=' in the wrong place, a value that is not a
\* string; and it never throws.
C20_TrueExactlyForShapedStrings ==
  bResult.called =>
    /\ bResult.ok
    /\ bResult.value = (/\ bValue.type = "string"
                        /\ bValue.chars # <<>>
                        /\ HasBase64Shape(bValue.chars))

\* The same of strings alone.
C20_StringsOnly ==
  (bResult.called /\ bValue.type = "string") =>
    /\ bResult.ok
    /\ bResult.value = (bValue.chars # <<>> /\ HasBase64Shape(bValue.chars))

(***************************************************************************)
(* Several calls of encrypt and decrypt in flight on the one cryptoUtils   *)
(* instance. A call runs up to its next await in one step; what it keeps   *)
(* between steps are its own constants (data, salt, iv, key), what it      *)
(* shares with the other calls is the instance. A step gives the call and  *)
(* the instance as it leaves them.                                         *)
(***************************************************************************)
NoKey == [pw |-> <<>>, salt |-> <<>>]
NewCall(arguments) ==
  [op |-> arguments.op, text |-> arguments.text,
   password |-> arguments.password, pc |-> "called",
   seed |-> [salt |-> 0, iv |-> 0], data |-> <<>>, salt |-> <<>>,
   iv |-> <<>>, key |-> NoKey, result |-> Throw]

ConcInit ==
  /\ kInstance = NewCryptoUtils
  /\ kCalls \in [1..MaxCalls -> {NewCall(a) : a \in ConcArguments}]
  /\ CipherIdle
  /\ WrapIdle
  /\ MatchIdle
  /\ AppIdle
  /\ StoreIdle
  /\ PanelIdle
  /\ ShapeIdle
  /\ ModalIdle
  /\ WritersIdle

\* encrypt with one salt and one IV for the instance: drawn by the first
\* call and kept in a field
encryptStartKeepingSalt(call, instance, seed) ==
  LET kept == "seed" \in DOMAIN instance
      used == IF kept THEN instance.seed ELSE seed
  IN [call |-> [call EXCEPT !.seed = seed,
                            !.data = TextEncode(call.text),
                            !.salt = generateSalt(used.salt),
                            !.iv = generateIV(used.iv),
                            !.pc = "importKey"],
      instance |-> [f \in DOMAIN instance \cup {"seed"} |->
                      IF f = "seed" THEN used ELSE instance[f]]]

\* encrypt up to the await of crypto.subtle.importKey in deriveKey
encryptStart(call, instance, seed) ==
  [call |-> [call EXCEPT !.seed = seed,
                         !.data = TextEncode(call.text),
                         !.salt = generateSalt(seed.salt),
                         !.iv = generateIV(seed.iv),
                         !.pc = "importKey"],
   instance |-> instance]

\* decrypt up to the same await; base64ToArrayBuffer may throw
decryptStart(call, instance) ==
  LET decoded == base64ToArrayBuffer(call.text)
      data == decoded.bytes
  IN [call |-> IF ~decoded.ok
               THEN [call EXCEPT !.pc = "done", !.result = Throw]
               ELSE [call EXCEPT !.data = data,
                                 !.salt = Slice(data, 0, 16),
                                 !.iv = Slice(data, 16, 28),
                                 !.pc = "importKey"],
      instance |-> instance]

\* deriveKey from importKey's result to the await of crypto.subtle.deriveKey
importKeyDone(call, instance) ==
  [call |-> [call EXCEPT !.key = [pw |-> TextEncode(call.password),
                                  salt |-> <<>>],
                         !.pc = "deriveKey"],
   instance |-> instance]

\* deriveKey returns the key made for this.algorithm and this.keyUsage; the
\* caller goes on to the await of crypto.subtle.encrypt or decrypt
deriveKeyDone(call, instance) ==
  [call |-> IF instance.algorithm.name = "AES-GCM"
                 /\ call.op \in instance.keyUsage
            THEN [call EXCEPT !.key = deriveKey(call.password, call.salt),
                              !.pc = "cipher"]
            ELSE [call EXCEPT !.pc = "done", !.result = Throw],
   instance |-> instance]

\* encrypt and decrypt from the cipher's result to their return
cipherDone(call, instance) ==
  LET encrypted == subtleEncrypt(call.key, call.iv, call.data)
      decrypted == subtleDecrypt(call.key, call.iv,
                                 Slice(call.data, 28, Len(call.data)))
  IN [call |->
        [call EXCEPT
           !.pc = "done",
           !.result =
             IF call.op = "encrypt"
             THEN Return(arrayBufferToBase64(call.salt \o call.iv
                                             \o encrypted))
             ELSE IF decrypted.ok THEN Return(TextDecode(decrypted.data))
             ELSE Throw],
      instance |-> instance]

ConcStart ==
  \E i \in 1..MaxCalls :
    /\ kCalls[i].pc = "called"
    /\ \E seed \in SeedPairs :
         LET next == IF kCalls[i].op = "encrypt"
                     THEN encryptStart(kCalls[i], kInstance, seed)
                     ELSE decryptStart(kCalls[i], kInstance)
         IN /\ kCalls' = [kCalls EXCEPT ![i] = next.call]
            /\ kInstance' = next.instance

ConcImportKey ==
  \E i \in 1..MaxCalls :
    /\ kCalls[i].pc = "importKey"
    /\ LET next == importKeyDone(kCalls[i], kInstance)
       IN /\ kCalls' = [kCalls EXCEPT ![i] = next.call]
          /\ kInstance' = next.instance

ConcDeriveKey ==
  \E i \in 1..MaxCalls :
    /\ kCalls[i].pc = "deriveKey"
    /\ LET next == deriveKeyDone(kCalls[i], kInstance)
       IN /\ kCalls' = [kCalls EXCEPT ![i] = next.call]
          /\ kInstance' = next.instance

ConcCipher ==
  \E i \in 1..MaxCalls :
    /\ kCalls[i].pc = "cipher"
    /\ LET next == cipherDone(kCalls[i], kInstance)
       IN /\ kCalls' = [kCalls EXCEPT ![i] = next.call]
          /\ kInstance' = next.instance

ConcNext ==
  \/ ConcStart /\ UNCHANGED <<cipherVars, wrapVars, matchVars, appVars, storeVars, panelVars, shapeVars, modalVars, writerVars>>
  \/ ConcImportKey /\ UNCHANGED <<cipherVars, wrapVars, matchVars, appVars, storeVars, panelVars, shapeVars, modalVars, writerVars>>
  \/ ConcDeriveKey /\ UNCHANGED <<cipherVars, wrapVars, matchVars, appVars, storeVars, panelVars, shapeVars, modalVars, writerVars>>
  \/ ConcCipher /\ UNCHANGED <<cipherVars, wrapVars, matchVars, appVars, storeVars, panelVars, shapeVars, modalVars, writerVars>>

SpecConc == ConcInit /\ [][ConcNext]_vars

(***************************************************************************)
(* Claims on calls in flight together                                      *)
(***************************************************************************)
\* What the call returns when it runs alone, with the salt and IV it drew.
Alone(call) ==
  IF call.op = "encrypt"
  THEN encrypt(call.text, call.password, call.seed.salt, call.seed.iv, TRUE)
  ELSE decrypt(call.text, call.password, TRUE)

\* C23: in every interleaving of the calls of encrypt and decrypt in flight
\* on the shared cryptoUtils instance, each call returns what it would
\* return if run alone, and leaves the instance as it was.
C23_CallsIndependent ==
  /\ kInstance = NewCryptoUtils
  /\ \A i \in 1..MaxCalls :
       kCalls[i].pc = "done" => kCalls[i].result = Alone(kCalls[i])
\* A call of encrypt has returned while another call of encrypt with the
\* same arguments, started before it returned, still waits for the cipher.
C23_Witness ==
  \E i, j \in 1..MaxCalls :
    /\ i # j
    /\ kCalls[i].op = "encrypt" /\ kCalls[j].op = "encrypt"
    /\ kCalls[i].password = kCalls[j].password
    /\ kCalls[i].pc = "done" /\ kCalls[i].result.ok
    /\ kCalls[j].pc = "cipher"
    /\ kCalls[i].seed # kCalls[j].seed

(***************************************************************************)
(* The account modal of the popup. An environment is selected and          *)
(* window.cryptoUtils is loaded. An account is its id and its username,    *)
(* "stored" as it was saved first, or what the form held when it was       *)
(* saved again; the other fields go the way of the username. A call runs   *)
(* up to its next await or callback in one step.                           *)
(***************************************************************************)
ModalInit ==
  /\ oAccounts = <<[id |-> 1, username |-> "stored"]>>
  /\ oCurrentAccountId = 0
  /\ oForm = ""
  /\ oOpened = "none"
  /\ oLoads = {}
  /\ oSubmit = NoSubmit
  /\ oNow = 1
  /\ oDone = NoStored
  /\ CipherIdle
  /\ WrapIdle
  /\ MatchIdle
  /\ AppIdle
  /\ StoreIdle
  /\ PanelIdle
  /\ ShapeIdle
  /\ ConcIdle
  /\ WritersIdle

\* accounts.findIndex(a => a.id === id), 0 for -1
FindAccount(accounts, id) ==
  IF \E k \in 1..Len(accounts) : accounts[k].id = id
  THEN CHOOSE k \in 1..Len(accounts) :
         /\ accounts[k].id = id
         /\ \A j \in 1..(k - 1) : accounts[j].id # id
  ELSE 0

\* openAccountModal(accountId), edit mode: the form is reset and the
\* accounts are asked of chrome.storage.local; the modal opens
ModalOpenAccountModalEdit ==
  /\ oSubmit = NoSubmit
  /\ Cardinality(oLoads) < MaxLoads
  /\ \E accountId \in {oAccounts[k].id : k \in 1..Len(oAccounts)} :
       /\ [accountId |-> accountId, pc |-> "get"] \notin oLoads
       /\ oLoads' = oLoads \cup {[accountId |-> accountId, pc |-> "get"]}
  /\ oCurrentAccountId' = 0
  /\ oForm' = ""
  /\ oOpened' = "edit"
  /\ UNCHANGED <<oAccounts, oSubmit, oNow, oDone>>

\* openAccountModal(), add mode
ModalOpenAccountModalAdd ==
  /\ oSubmit = NoSubmit
  /\ oOpened # "add"
  /\ oCurrentAccountId' = 0
  /\ oForm' = ""
  /\ oOpened' = "add"
  /\ UNCHANGED <<oAccounts, oLoads, oSubmit, oNow, oDone>>

\* The callback of chrome.storage.local.get of an edit-mode load: the
\* fields are filled in, decryptPassword is awaited
ModalLoadCallback ==
  \E load \in oLoads :
    /\ load.pc = "get"
    /\ LET index == FindAccount(oAccounts, load.accountId) IN
       IF index # 0
       THEN /\ oForm' = oAccounts[index].username
            /\ oLoads' = (oLoads \ {load}) \cup {[load EXCEPT !.pc = "decrypt"]}
       ELSE /\ oLoads' = oLoads \ {load}
            /\ UNCHANGED oForm
    /\ UNCHANGED <<oAccounts, oCurrentAccountId, oOpened, oSubmit, oNow, oDone>>

\* decryptPassword returned to the load: this.currentAccountId = accountId
ModalLoadDecrypted ==
  \E load \in oLoads :
    /\ load.pc = "decrypt"
    /\ oCurrentAccountId' = load.accountId
    /\ oLoads' = oLoads \ {load}
    /\ UNCHANGED <<oAccounts, oForm, oOpened, oSubmit, oNow, oDone>>

\* The user fills in the form of the open modal.
ModalType ==
  /\ oOpened # "none"
  /\ oSubmit = NoSubmit
  /\ oForm # "typed"
  /\ oForm' = "typed"
  /\ UNCHANGED <<oAccounts, oCurrentAccountId, oOpened, oLoads, oSubmit, oNow, oDone>>

\* handleAccountSubmit up to `await encryptPassword`: the fields are read
\* and are not empty
ModalHandleAccountSubmit ==
  /\ oOpened # "none"
  /\ oSubmit = NoSubmit
  /\ oForm # ""
  /\ oSubmit' = [pc |-> "encrypt", username |-> oForm, opened |-> oOpened]
  /\ UNCHANGED <<oAccounts, oCurrentAccountId, oForm, oOpened, oLoads, oNow, oDone>>

\* up to `await chrome.storage.local.get('accounts')`
ModalSubmitEncrypted ==
  /\ oSubmit.pc = "encrypt"
  /\ oSubmit' = [oSubmit EXCEPT !.pc = "get"]
  /\ UNCHANGED <<oAccounts, oCurrentAccountId, oForm, oOpened, oLoads, oNow, oDone>>

\* from there to the end: this.currentAccountId chooses between the edit
\* and the add branch; the accounts are stored, the modal is closed and the
\* form reset
ModalSubmitStore ==
  /\ oSubmit.pc = "get"
  /\ oSubmit' = NoSubmit
  /\ IF oCurrentAccountId # 0
     THEN LET index == FindAccount(oAccounts, oCurrentAccountId) IN
          IF index # 0
          THEN /\ oAccounts' = [oAccounts EXCEPT ![index] =
                                  [@ EXCEPT !.username = oSubmit.username]]
               /\ oDone' = [opened |-> oSubmit.opened, before |-> oAccounts,
                            after |-> oAccounts']
               /\ oCurrentAccountId' = 0
               /\ oForm' = ""
               /\ oOpened' = "none"
               /\ UNCHANGED oNow
          ELSE UNCHANGED <<oAccounts, oCurrentAccountId, oForm, oOpened, oNow, oDone>>
     ELSE /\ Len(oAccounts) < MaxModalAccounts
          /\ oNow' = oNow + 1
          /\ oAccounts' = push(oAccounts, [id |-> oNow', username |-> oSubmit.username])
          /\ oDone' = [opened |-> oSubmit.opened, before |-> oAccounts,
                       after |-> oAccounts']
          /\ oCurrentAccountId' = 0
          /\ oForm' = ""
          /\ oOpened' = "none"
  /\ UNCHANGED oLoads

ModalNext ==
  \/ ModalOpenAccountModalEdit /\ UNCHANGED <<cipherVars, wrapVars, matchVars, appVars, storeVars, panelVars, shapeVars, concVars, writerVars>>
  \/ ModalOpenAccountModalAdd /\ UNCHANGED <<cipherVars, wrapVars, matchVars, appVars, storeVars, panelVars, shapeVars, concVars, writerVars>>
  \/ ModalLoadCallback /\ UNCHANGED <<cipherVars, wrapVars, matchVars, appVars, storeVars, panelVars, shapeVars, concVars, writerVars>>
  \/ ModalLoadDecrypted /\ UNCHANGED <<cipherVars, wrapVars, matchVars, appVars, storeVars, panelVars, shapeVars, concVars, writerVars>>
  \/ ModalType /\ UNCHANGED <<cipherVars, wrapVars, matchVars, appVars, storeVars, panelVars, shapeVars, concVars, writerVars>>
  \/ ModalHandleAccountSubmit /\ UNCHANGED <<cipherVars, wrapVars, matchVars, appVars, storeVars, panelVars, shapeVars, concVars, writerVars>>
  \/ ModalSubmitEncrypted /\ UNCHANGED <<cipherVars, wrapVars, matchVars, appVars, storeVars, panelVars, shapeVars, concVars, writerVars>>
  \/ ModalSubmitStore /\ UNCHANGED <<cipherVars, wrapVars, matchVars, appVars, storeVars, panelVars, shapeVars, concVars, writerVars>>

SpecModal == ModalInit /\ [][ModalNext]_vars

(***************************************************************************)
(* Claims on the account modal                                             *)
(***************************************************************************)
\* C29: after openAccountModal() was called in add mode, the next
\* handleAccountSubmit that stores adds one account at the end and leaves
\* every account there was as it was, also when the load of an earlier
\* openAccountModal(accountId) calls back after the modal was opened to add.
C29_AddNeverOverwrites ==
  oDone.opened = "add" =>
    /\ Len(oDone.after) = Len(oDone.before) + 1
    /\ SubSeq(oDone.after, 1, Len(oDone.before)) = oDone.before

(***************************************************************************)
(* The handlers that write chrome.storage.local's accounts, one of the     *)
(* popup and one of the panel in flight at a time. The popup and the panel *)
(* are different processes. A handler keeps the accounts it read until it  *)
(* writes; a step is one request served by chrome.storage.local, with what *)
(* the handler does up to its next request. An account is its id and its   *)
(* envId. The clock moves on between any two ids.                          *)
(***************************************************************************)
WritersInit ==
  /\ uAccounts = <<[id |-> 1, envId |-> 1]>>
  /\ uPopup = NoHandler
  /\ uPanel = NoHandler
  /\ uNow = 1
  /\ uAdded = {}
  /\ uDeleted = {}
  /\ CipherIdle
  /\ WrapIdle
  /\ MatchIdle
  /\ AppIdle
  /\ StoreIdle
  /\ PanelIdle
  /\ ShapeIdle
  /\ ConcIdle
  /\ ModalIdle

AccountIds(accounts) == {accounts[k].id : k \in 1..Len(accounts)}

\* An add handler up to `accounts.push(newAccount)` and the request to
\* store: the accounts are read, the new account is made
AddRead(envId) ==
  [op |-> "add", pc |-> "set",
   accounts |-> push(uAccounts, [id |-> uNow + 1, envId |-> envId]),
   arg |-> uNow + 1]

\* handleAccountSubmit of the popup, add mode: `await get('accounts')`
WritersPopupHandleAccountSubmit ==
  /\ uPopup = NoHandler
  /\ uNow < MaxWriterNow
  /\ \E currentEnvId \in WriterEnvIds : uPopup' = AddRead(currentEnvId)
  /\ uNow' = uNow + 1
  /\ UNCHANGED <<uAccounts, uPanel, uAdded, uDeleted>>

\* handleAddAccountSubmit of the panel: `await get('accounts')`
WritersPanelHandleAddAccountSubmit ==
  /\ uPanel = NoHandler
  /\ uNow < MaxWriterNow
  /\ \E currentEnvId \in WriterEnvIds : uPanel' = AddRead(currentEnvId)
  /\ uNow' = uNow + 1
  /\ UNCHANGED <<uAccounts, uPopup, uAdded, uDeleted>>

\* `await set({ accounts })` of the popup's add, and the success message
WritersPopupSubmitStored ==
  /\ uPopup.op = "add"
  /\ uAccounts' = uPopup.accounts
  /\ uAdded' = uAdded \cup {uPopup.arg}
  /\ uPopup' = NoHandler
  /\ UNCHANGED <<uPanel, uNow, uDeleted>>

\* `await set({ accounts })` of the panel's add, and the success message
WritersPanelSubmitStored ==
  /\ uPanel.op = "add"
  /\ uAccounts' = uPanel.accounts
  /\ uAdded' = uAdded \cup {uPanel.arg}
  /\ uPanel' = NoHandler
  /\ UNCHANGED <<uPopup, uNow, uDeleted>>

\* handleDeleteAccount(accountId) up to confirm()
WritersHandleDeleteAccount ==
  /\ uPopup = NoHandler
  /\ \E accountId \in AccountIds(uAccounts) :
       uPopup' = [op |-> "deleteAccount", pc |-> "confirm",
                  accounts |-> uAccounts, arg |-> accountId]
  /\ UNCHANGED <<uAccounts, uPanel, uNow, uAdded, uDeleted>>

\* handleDeleteEnv(envId) up to confirm()
WritersHandleDeleteEnv ==
  /\ uPopup = NoHandler
  /\ \E envId \in WriterEnvIds :
       uPopup' = [op |-> "deleteEnv", pc |-> "confirm",
                  accounts |-> uAccounts, arg |-> envId]
  /\ UNCHANGED <<uAccounts, uPanel, uNow, uAdded, uDeleted>>

\* confirm() returns false
WritersDecline ==
  /\ uPopup.pc = "confirm"
  /\ uPopup' = NoHandler
  /\ UNCHANGED <<uAccounts, uPanel, uNow, uAdded, uDeleted>>

\* confirm() returns true: the accounts read before, less the deleted
\* ones, are stored
WritersConfirm ==
  /\ uPopup.pc = "confirm"
  /\ LET accounts == uPopup.accounts
         Other(a) == a.id # uPopup.arg
         OtherEnv(acc) == acc.envId # uPopup.arg
         relatedAccounts == AccountIds(accounts) \ AccountIds(SelectSeq(accounts, OtherEnv))
     IN IF uPopup.op = "deleteAccount"
        THEN /\ uAccounts' = SelectSeq(accounts, Other)
             /\ uDeleted' = uDeleted \cup {uPopup.arg}
        ELSE IF relatedAccounts # {}
        THEN /\ uAccounts' = SelectSeq(accounts, OtherEnv)
             /\ uDeleted' = uDeleted \cup relatedAccounts
        ELSE UNCHANGED <<uAccounts, uDeleted>>
  /\ uPopup' = NoHandler
  /\ UNCHANGED <<uPanel, uNow, uAdded>>

WritersNext ==
  \/ WritersPopupHandleAccountSubmit /\ UNCHANGED <<cipherVars, wrapVars, matchVars, appVars, storeVars, panelVars, shapeVars, concVars, modalVars>>
  \/ WritersPanelHandleAddAccountSubmit /\ UNCHANGED <<cipherVars, wrapVars, matchVars, appVars, storeVars, panelVars, shapeVars, concVars, modalVars>>
  \/ WritersPopupSubmitStored /\ UNCHANGED <<cipherVars, wrapVars, matchVars, appVars, storeVars, panelVars, shapeVars, concVars, modalVars>>
  \/ WritersPanelSubmitStored /\ UNCHANGED <<cipherVars, wrapVars, matchVars, appVars, storeVars, panelVars, shapeVars, concVars, modalVars>>
  \/ WritersHandleDeleteAccount /\ UNCHANGED <<cipherVars, wrapVars, matchVars, appVars, storeVars, panelVars, shapeVars, concVars, modalVars>>
  \/ WritersHandleDeleteEnv /\ UNCHANGED <<cipherVars, wrapVars, matchVars, appVars, storeVars, panelVars, shapeVars, concVars, modalVars>>
  \/ WritersDecline /\ UNCHANGED <<cipherVars, wrapVars, matchVars, appVars, storeVars, panelVars, shapeVars, concVars, modalVars>>
  \/ WritersConfirm /\ UNCHANGED <<cipherVars, wrapVars, matchVars, appVars, storeVars, panelVars, shapeVars, concVars, modalVars>>

SpecWriters == WritersInit /\ [][WritersNext]_vars

(***************************************************************************)
(* Claims on the account writers                                           *)
(***************************************************************************)
\* C30: however the account-writing handlers of the popup and of the panel
\* interleave, every account whose add reported success is in storage
\* afterwards, unless a delete handler removed it.
C30_NoLostWrites ==
  \A id \in uAdded \ uDeleted : id \in AccountIds(uAccounts)

====
